---- MODULE Spec2Model ----
(***************************************************************************)
(* Request/cache orchestration of the IPinfo Python client library.        *)
(*                                                                         *)
(* One handler object (of one of the eight handler classes) is driven by   *)
(* one caller.  getDetails is one atomic step; getBatchDetails is a        *)
(* sequence of steps (plan, then one step per chunk in the synchronous     *)
(* handlers, or one task per chunk in the asyncio handlers).               *)
(*                                                                         *)
(* Python values are represented as follows:                               *)
(*   dict            a function whose domain is a set of strings           *)
(*   list            a sequence                                            *)
(*   str             a string; None in a string-typed slot is NoneStr      *)
(*   Details(d)      [class |-> "Details", details |-> d]                  *)
(*   a call argument [type |-> "str" | "IPv4Address" | "NoneType",         *)
(*                    text |-> ...]                                        *)
(*   a "lat,lon" str a sequence of tokens, "," being the comma             *)
(***************************************************************************)
EXTENDS Integers, Sequences, FiniteSets, TLC

VARIABLES
    cls,               \* the class of the handler object
    cache,             \* self.cache: versioned cache key -> record (live entries)
    httpsess,          \* self.httpsess of the asyncio handlers: 0 is None
    sessions,          \* the ClientSession objects the handler has created
    pc,                \* where the caller is: "idle", "chunks", "wait", "cancel", "done"
    call,              \* the call in progress, or the last one
    result,            \* the local `result` dict of getBatchDetails
    lookup_addresses,  \* the local `lookup_addresses` list of getBatchDetails
    idx,               \* the loop variable i of the synchronous chunk loop
    tasks,             \* the chunk tasks of the asyncio getBatchDetails
    sent,              \* the network requests issued since the call started
    recv,              \* what those requests have come to, in order of arrival
    ret,               \* what the last call returned or raised
    cache0,            \* the cache as it was when the call started
    overtime,          \* time.time() - start_time has passed timeout_total
    ccls,              \* the class of the cache object made by NewCache
    store,             \* what that cache object holds: key -> value, expiry
    store0,            \* what it held before the last operation on it
    now,               \* the timer of that cache object
    out                \* what the last operation on that cache object came to

vars == <<cls, cache, httpsess, sessions, pc, call, result, lookup_addresses, idx,
          tasks, sent, recv, ret, cache0, overtime, ccls, store, store0, now, out>>

\* The handler, and the cache object operated on directly.
handlervars == <<cls, cache, httpsess, sessions, pc, call, result, lookup_addresses,
                 idx, tasks, sent, recv, ret, cache0, overtime>>
cachevars == <<ccls, store, store0, now, out>>

-----------------------------------------------------------------------------
(* Bounds of the model.                                                     *)

\* Length of the longest ordinary input list of getBatchDetails.
MaxKeys == 2

\* Largest explicit batch_size passed with an ordinary input list.
MaxBatchArg == 2

\* The handler is deinitialized only while it has created fewer sessions.
MaxSessions == 3

\* The options of the DefaultCache operated on directly, DefaultCache(maxsize=
\* MaxSize, ttl=Ttl), and the last reading of its timer.
MaxSize == 2
Ttl == 2
MaxTime == 4

-----------------------------------------------------------------------------
(* Constants of handler_utils.py.                                           *)

API_URL == "https://ipinfo.io"
LITE_API_URL == "https://api.ipinfo.io/lite"
PLUS_API_URL == "https://api.ipinfo.io/plus"
RESPROXY_API_URL == "https://ipinfo.io/resproxy"
BATCH_API_URL == "https://api.ipinfo.io/batch"
COUNTRY_FLAGS_URL == "https://cdn.ipinfo.io/static/images/countries-flags/"
BATCH_MAX_SIZE == 1000
CACHE_KEY_VSN == "1"

-----------------------------------------------------------------------------
(* Python values.                                                           *)

NoneStr == "None"
NoneRec == [none |-> TRUE]
NoneArg == [type |-> "NoneType", text |-> NoneStr]
EmptyDict == [x \in {} |-> ""]

Str(s) == [type |-> "str", text |-> s]
IPv4Address(s) == [type |-> "IPv4Address", text |-> s]

\* d[k] = v on a dict.
Put(d, k, v) == [x \in (DOMAIN d) \cup {k} |-> IF x = k THEN v ELSE d[x]]

\* bool(ip_address): None and "" are falsy, an address object is truthy.
Truthy(a) == a.type # "NoneType" /\ ~(a.type = "str" /\ a.text = "")

\* ip_address.exploded for the address objects, else the argument itself.
Normalize(a) == IF a.type = "IPv4Address" THEN Str(a.text) ELSE a

\* f"{k}" : str(None) is "None".
Format(a) == IF a.type = "NoneType" THEN "None" ELSE a.text

Details(d) == [class |-> "Details", details |-> d]
DetailsClass == [class |-> "type", name |-> "Details"]

Return(v) == [kind |-> "return", val |-> v]
Raise(e) == [kind |-> "raise", exc |-> e]
RaiseAPIError(code, json) ==
    [kind |-> "raise", exc |-> "APIError", error_code |-> code, error_json |-> json]
NoRet == [kind |-> "none"]

-----------------------------------------------------------------------------
(* The handler classes.                                                     *)

Classes ==
    {"Handler", "AsyncHandler", "HandlerLite", "AsyncHandlerLite",
     "HandlerPlus", "AsyncHandlerPlus", "HandlerResProxy", "AsyncHandlerResProxy"}

AsyncClasses ==
    {"AsyncHandler", "AsyncHandlerLite", "AsyncHandlerPlus", "AsyncHandlerResProxy"}
StandardClasses == {"Handler", "AsyncHandler"}
LiteClasses == {"HandlerLite", "AsyncHandlerLite"}
PlusClasses == {"HandlerPlus", "AsyncHandlerPlus"}
ResProxyClasses == {"HandlerResProxy", "AsyncHandlerResProxy"}
BatchClasses == Classes \ LiteClasses

-----------------------------------------------------------------------------
(* Addresses, the bogon classifier and the reference tables.                *)

PublicAddrs == {"8.8.8.8", "1.1.1.1"}
BogonAddrs == {"127.0.0.1"}
OwnAddr == "9.9.9.9"

\* ipinfo/bogon.py : membership of the address in a reserved network.
is_bogon(ip) == ip \in BogonAddrs

countries == [c \in {"US", "DE"} |-> IF c = "US" THEN "United States" ELSE "Germany"]
eu_countries == {"DE"}
countries_flags ==
    [c \in {"US", "DE"} |-> [emoji |-> "flag-" \o c, unicode |-> "U+" \o c]]
countries_currencies ==
    [c \in {"US", "DE"} |->
        IF c = "US" THEN [code |-> "USD", symbol |-> "$"]
        ELSE [code |-> "EUR", symbol |-> "E"]]
continents ==
    [c \in {"US", "DE"} |->
        IF c = "US" THEN [code |-> "NA", name |-> "North America"]
        ELSE [code |-> "EU", name |-> "Europe"]]

\* table.get(code) in a string-typed / record-typed slot.
GetStr(table, code) == IF code \in DOMAIN table THEN table[code] ELSE NoneStr
GetRec(table, code) == IF code \in DOMAIN table THEN table[code] ELSE NoneRec

-----------------------------------------------------------------------------
(* handler_utils.py                                                         *)

\* A cache key without its version tag.
Untagged(k, vsn) == Format(k) \o ":"

\* f"{k}:{CACHE_KEY_VSN}" in a release whose CACHE_KEY_VSN is vsn.
VersionedKey(k, vsn) == Format(k) \o ":" \o vsn

cache_key(k) == VersionedKey(k, CACHE_KEY_VSN)

\* location.split(","): the parts between the "," tokens.
RECURSIVE Split(_)
Split(s) ==
    IF \A i \in 1..Len(s) : s[i] # ","
    THEN <<s>>
    ELSE LET i == CHOOSE j \in 1..Len(s) :
                      s[j] = "," /\ \A h \in 1..(j - 1) : s[h] # ","
         IN <<SubSeq(s, 1, i - 1)>> \o Split(SubSeq(s, i + 1, Len(s)))

\* The string a token sequence spells.
RECURSIVE Join(_)
Join(s) == IF s = <<>> THEN "" ELSE Head(s) \o Join(Tail(s))

read_coords(location) ==
    LET coords == IF location # <<>> THEN Split(location) ELSE <<>>
    IN IF Len(coords) = 2 /\ coords[1] # <<>> /\ coords[2] # <<>>
       THEN <<Join(coords[1]), Join(coords[2])>>
       ELSE <<NoneStr, NoneStr>>

\* A country code taken from "country" before "country_code".
CountryFirst(details) ==
    IF "country" \in DOMAIN details THEN details["country"]
    ELSE IF "country_code" \in DOMAIN details THEN details["country_code"]
    ELSE ""

\* A format_details that finds no country code in the record.
NoCode(details) == ""

\* A country code taken from the country name once there is one.
CodeFromName(details) ==
    IF "country_name" \in DOMAIN details THEN details["country_name"]
    ELSE IF "country_code" \in DOMAIN details THEN details["country_code"]
    ELSE IF "country" \in DOMAIN details THEN details["country"]
    ELSE ""

\* The country code format_details works with: "country_code" of the Lite
\* API, else "country" of the Core API, else "".
CountryCode(details) ==
    IF "country_code" \in DOMAIN details THEN details["country_code"]
    ELSE IF "country" \in DOMAIN details THEN details["country"]
    ELSE ""

format_details(details) ==
    LET country_code == CountryCode(details)
        d1 == IF country_code \in DOMAIN countries
              THEN Put(details, "country_name", countries[country_code])
              ELSE details
        d2 == Put(d1, "isEU", country_code \in eu_countries)
        d3 == Put(d2, "country_flag_url", COUNTRY_FLAGS_URL \o country_code \o ".svg")
        d4 == IF country_code \in DOMAIN countries_flags
              THEN Put(d3, "country_flag", countries_flags[country_code])
              ELSE d3
        d5 == IF country_code \in DOMAIN countries_currencies
              THEN Put(d4, "country_currency", countries_currencies[country_code])
              ELSE d4
        d6 == IF country_code \in DOMAIN continents
              THEN Put(d5, "continent", continents[country_code])
              ELSE d5
    IN IF "loc" \in DOMAIN d6 /\ d6["loc"] # <<>>
       THEN LET c == read_coords(d6["loc"])
            IN Put(Put(d6, "latitude", c[1]), "longitude", c[2])
       ELSE d6

\* The six assignments _format_plus_details makes for one country code.
PlusFields(d, country_code) ==
    LET d1 == Put(d, "country_name", GetStr(countries, country_code))
        d2 == Put(d1, "isEU", country_code \in eu_countries)
        d3 == Put(d2, "country_flag", GetRec(countries_flags, country_code))
        d4 == Put(d3, "country_currency", GetRec(countries_currencies, country_code))
        d5 == Put(d4, "continent", GetRec(continents, country_code))
    IN Put(d5, "country_flag_url", COUNTRY_FLAGS_URL \o country_code \o ".svg")

_format_plus_details(details) ==
    LET d1 == IF "geo" \in DOMAIN details /\ details["geo"] # EmptyDict
                   /\ "country_code" \in DOMAIN details["geo"]
              THEN Put(details, "geo",
                       PlusFields(details["geo"], details["geo"]["country_code"]))
              ELSE details
    IN IF "country_code" \in DOMAIN d1
       THEN PlusFields(d1, d1["country_code"])
       ELSE d1

\* A return_or_fail that never raises.
AlwaysReturn(raise_on_fail, e, v) == Return(v)

return_or_fail(raise_on_fail, e, v) == IF raise_on_fail THEN Raise(e) ELSE Return(v)

-----------------------------------------------------------------------------
(* The enrichment service, seen through the transport.                      *)

\* "37.4056,-122.0775" as tokens.
LocOf(addr) == IF addr = "8.8.8.8" THEN <<"37.4056", ",", "-122.0775">>
               ELSE <<"52.52", ",", "13.40">>
CountryOf(addr) == IF addr = "1.1.1.1" THEN "DE" ELSE "US"

\* The address a request path names: "" is the caller's own address.
Subject(addr) == IF addr = "" THEN OwnAddr ELSE addr

StandardRecord(addr) ==
    [ip |-> Subject(addr), country |-> CountryOf(addr), loc |-> LocOf(addr)]
LiteRecord(addr) ==
    [ip |-> Subject(addr), country_code |-> CountryOf(addr),
     country |-> countries[CountryOf(addr)]]
PlusRecord(addr) ==
    [ip |-> Subject(addr),
     geo |-> [country |-> countries[CountryOf(addr)], country_code |-> CountryOf(addr)]]
ResProxyRecord(addr) ==
    [ip |-> Subject(addr), last_seen |-> "2025-01-01", service |-> "proxy"]
BogonRecord(addr) == [ip |-> addr, bogon |-> TRUE]

\* The record the service of handler class c holds for an address.
ServiceRecord(c, addr) ==
    IF is_bogon(addr) THEN BogonRecord(addr)
    ELSE IF c \in StandardClasses THEN StandardRecord(addr)
    ELSE IF c \in LiteClasses THEN LiteRecord(addr)
    ELSE IF c \in PlusClasses THEN PlusRecord(addr)
    ELSE ResProxyRecord(addr)

Response(status, ctype) == [status |-> status, content_type |-> ctype]
TransportError == [error |-> "ConnectionError"]
IsError(o) == "error" \in DOMAIN o

\* What one GET can come to: a success, quota exceeded, an error status with
\* a JSON body, an error status with a text body, a transport failure.
GetOutcomes ==
    {Response(200, "application/json"), Response(429, "text/plain"),
     Response(403, "application/json"), Response(503, "text/plain"),
     TransportError}

ErrorJson == [message |-> "missing token"]
ErrorText == "Service Unavailable"

-----------------------------------------------------------------------------
(* The state after construction.                                            *)

NoCall == [op |-> "none"]
NoOut == [op |-> "none", key |-> "", kind |-> "none", val |-> ""]

Init ==
    /\ cls \in Classes
    /\ cache = EmptyDict
    /\ httpsess = 0
    /\ sessions = <<>>
    /\ pc = "idle"
    /\ call = NoCall
    /\ result = EmptyDict
    /\ lookup_addresses = <<>>
    /\ idx = 0
    /\ tasks = <<>>
    /\ sent = <<>>
    /\ recv = <<>>
    /\ ret = NoRet
    /\ cache0 = EmptyDict
    /\ overtime = FALSE
    /\ ccls = "none"
    /\ store = EmptyDict
    /\ store0 = EmptyDict
    /\ now = 0
    /\ out = NoOut

\* A chunk task that can still run.
LiveTask(t) == t.state \in {"new", "posted"}

\* The caller starts a call when the previous one is over and has left no
\* task behind.
CanCall ==
    /\ pc \in {"idle", "done"}
    /\ \A j \in 1..Len(tasks) : ~LiveTask(tasks[j])

\* _ensure_aiohttp_ready: the session self.httpsess holds afterwards, a new
\* ClientSession when it held none.  A session is named by its place in
\* `sessions`.
_ensure_aiohttp_ready(sess) == IF sess # 0 THEN sess ELSE Len(sessions) + 1

\* The asyncio handlers make the session ready as the first statement of
\* every lookup; the synchronous handlers have no session.
SessionAfterEntry == IF cls \in AsyncClasses THEN _ensure_aiohttp_ready(httpsess) ELSE httpsess

\* The sessions created so far, after _ensure_aiohttp_ready.
SessionsAfterEntry ==
    IF cls \in AsyncClasses /\ httpsess = 0 THEN Append(sessions, "open") ELSE sessions

-----------------------------------------------------------------------------
(* getDetails                                                               *)

DetailArgs ==
    {Str(a) : a \in PublicAddrs \cup BogonAddrs}
        \cup {IPv4Address("8.8.8.8"), IPv4Address("127.0.0.1"), NoneArg}

\* The URL of the single lookup.
DetailsUrl(c, ip) ==
    IF c \in LiteClasses
    THEN (IF Truthy(ip) THEN LITE_API_URL \o "/" \o ip.text ELSE LITE_API_URL \o "/me")
    ELSE LET base == IF c \in StandardClasses THEN API_URL
                     ELSE IF c \in PlusClasses THEN PLUS_API_URL
                     ELSE RESPROXY_API_URL
         IN IF Truthy(ip) THEN base \o "/" \o ip.text ELSE base

\* What the handler raises for a response with status >= 400 other than 429.
ErrorStatusRaise(c, o) ==
    IF c \in StandardClasses
    THEN \* error_response = response.json(), whatever the body is
         IF o.content_type = "application/json"
         THEN RaiseAPIError(o.status, ErrorJson)
         ELSE Raise(IF c = "Handler" THEN "JSONDecodeError" ELSE "ContentTypeError")
    ELSE IF o.content_type = "application/json"
    THEN \* AsyncHandlerResProxy does not await resp.json()
         RaiseAPIError(o.status,
                       IF c = "AsyncHandlerResProxy"
                       THEN [coroutine |-> "ClientResponse.json"]
                       ELSE ErrorJson)
    ELSE \* the asyncio handlers do not await resp.text()
         RaiseAPIError(o.status,
                       IF c \in AsyncClasses
                       THEN [error |-> "coroutine ClientResponse.text"]
                       ELSE [error |-> ErrorText])

\* "format & cache": the record as it is cached and returned.
FormatSingle(c, details) ==
    IF c \in StandardClasses \cup LiteClasses THEN format_details(details)
    ELSE IF c \in PlusClasses THEN _format_plus_details(details)
    ELSE details

\* The value getDetails returns after a lookup: AsyncHandlerResProxy ends in
\* "return Details", the class itself.
DetailsReturn(c, details) ==
    IF c = "AsyncHandlerResProxy" THEN DetailsClass ELSE Details(details)

\* A getDetails without the bogon short-circuit.
NoShortCircuit(ip) == FALSE

\* The bogon short-circuit of getDetails.
BogonShortCircuit(ip) == Truthy(ip) /\ is_bogon(ip.text)

\* A getDetails that never finds its key in the cache.
NeverHit(ip) == FALSE

\* The cache read of getDetails: self.cache[cache_key(ip_address)] does not
\* raise KeyError.
CacheHit(ip) == cache_key(ip) \in DOMAIN cache

\* What getDetails does once the GET has come to o.
AfterGet(ip, o) ==
    IF IsError(o)
    THEN ret' = Raise(o.error) /\ cache' = cache
    ELSE IF o.status = 429
    THEN ret' = Raise("RequestQuotaExceededError") /\ cache' = cache
    ELSE IF o.status >= 400
    THEN ret' = ErrorStatusRaise(cls, o) /\ cache' = cache
    ELSE LET details ==
                 FormatSingle(cls, ServiceRecord(cls, IF Truthy(ip) THEN ip.text ELSE ""))
         IN /\ cache' = Put(cache, cache_key(ip), details)
            /\ ret' = Return(DetailsReturn(cls, details))

\* The keys of the last call: the caller follows a call up with lookups of
\* the same keys, or drops its result first.
CallArgs ==
    IF call.op = "getDetails" THEN {call.ip_address}
    ELSE IF call.op = "getBatchDetails"
    THEN {call.ip_addresses[i] : i \in 1..Len(call.ip_addresses)}
    ELSE {}

GetDetails(a) ==
    /\ CanCall
    /\ pc = "done" => a \in CallArgs
    /\ call' = [op |-> "getDetails", ip_address |-> a]
    /\ cache0' = cache
    /\ overtime' = FALSE
    /\ httpsess' = SessionAfterEntry
    /\ sessions' = SessionsAfterEntry
    /\ pc' = "done"
    /\ result' = EmptyDict
    /\ lookup_addresses' = <<>>
    /\ idx' = 0
    /\ tasks' = <<>>
    /\ UNCHANGED <<cachevars, cls>>
    /\ LET ip == Normalize(a)
       IN IF BogonShortCircuit(ip)
          THEN /\ ret' = Return(Details([ip |-> ip.text, bogon |-> TRUE]))
               /\ sent' = <<>>
               /\ recv' = <<>>
               /\ cache' = cache
          ELSE IF CacheHit(ip)
          THEN /\ ret' = Return(Details(cache[cache_key(ip)]))
               /\ sent' = <<>>
               /\ recv' = <<>>
               /\ cache' = cache
          ELSE /\ sent' = <<[method |-> "GET", url |-> DetailsUrl(cls, ip)]>>
               /\ \E o \in GetOutcomes : recv' = <<o>> /\ AfterGet(ip, o)

-----------------------------------------------------------------------------
(* getBatchDetails: the arguments.                                          *)

\* batch_size=None, the default.
NoneSize == -1

BatchAddrs == PublicAddrs \cup BogonAddrs

\* Every list of at most MaxKeys addresses, and two lists of the shapes the
\* test suites use: one with an address object, one with a bogon between two
\* public addresses.
OrdinaryInputs ==
    UNION {[1..n -> {Str(a) : a \in BatchAddrs}] : n \in 1..MaxKeys}
        \cup {<<IPv4Address("8.8.8.8"), Str("1.1.1.1")>>,
              <<Str("8.8.8.8"), Str("127.0.0.1"), Str("1.1.1.1")>>}

\* A longer list with a repeated address.
LongerInputs == {<<Str("8.8.8.8"), Str("1.1.1.1"), Str("8.8.8.8")>>}

\* An input list longer than BATCH_MAX_SIZE.
BigInput == [i \in 1..(BATCH_MAX_SIZE + 1) |-> Str("8.8.8.8")]

BatchCall(l, b, r, t) ==
    [op |-> "getBatchDetails", ip_addresses |-> l, batch_size |-> b,
     raise_on_fail |-> r, timeout_total |-> t]

BatchCalls ==
    {BatchCall(l, b, r, t) :
        l \in OrdinaryInputs, b \in {NoneSize} \cup 1..MaxBatchArg,
        r \in BOOLEAN, t \in BOOLEAN}

\* Calls with the long input list, some with a batch_size above BATCH_MAX_SIZE.
BigCalls ==
    {BatchCall(BigInput, b, TRUE, FALSE) : b \in {NoneSize, 2 * BATCH_MAX_SIZE + 2}}

LongerCalls ==
    {BatchCall(l, b, r, t) :
        l \in LongerInputs, b \in {NoneSize} \cup 1..MaxBatchArg,
        r \in BOOLEAN, t \in BOOLEAN}

\* What the callers pass: the long lists go to the synchronous handlers only.
SyncCalls == BatchCalls \cup LongerCalls \cup BigCalls
CallsOf(c) == IF c \in AsyncClasses THEN BatchCalls ELSE SyncCalls

\* "if batch_size == None: batch_size = BATCH_MAX_SIZE"
EffectiveBatchSize(b) == IF b = NoneSize THEN BATCH_MAX_SIZE ELSE b

-----------------------------------------------------------------------------
(* getBatchDetails: the scan of the input list.                             *)

IsDict(v) == "class" \notin DOMAIN v

BogonDetails(k) == Details([ip |-> k, bogon |-> TRUE])

Cached(k) == cache_key(Str(k)) \in DOMAIN cache
CachedRecord(k) == cache[cache_key(Str(k))]

\* The writes result[k] = ... one loop iteration makes for the key k, in order.
ScanWrites(c, k) ==
    IF c = "Handler"
    THEN (IF k # "" /\ is_bogon(k) THEN <<BogonDetails(k)>> ELSE <<>>)
             \o (IF Cached(k) THEN <<CachedRecord(k)>> ELSE <<>>)
    ELSE IF c = "AsyncHandler"
    THEN (IF Cached(k) THEN <<CachedRecord(k)>> ELSE <<>>)
    ELSE IF k # "" /\ is_bogon(k) THEN <<BogonDetails(k)>>
    ELSE IF Cached(k) THEN <<Details(CachedRecord(k))>>
    ELSE <<>>

\* A scan that puts every key on the lookup list.
ScanEverything(c, k) == <<k>>

\* The entries one loop iteration appends to lookup_addresses for the key k.
ScanLookups(c, k) ==
    IF c = "Handler"
    THEN (IF k # "" /\ is_bogon(k) THEN <<>> ELSE <<k>>)
             \o (IF Cached(k) THEN <<>> ELSE <<k>>)
    ELSE IF c = "AsyncHandler"
    THEN (IF Cached(k) THEN <<>> ELSE <<k>>)
    ELSE IF (k # "" /\ is_bogon(k)) \/ Cached(k) THEN <<>>
    ELSE IF c \in ResProxyClasses THEN <<"resproxy/" \o k>>
    ELSE <<k>>

\* lookup_addresses after the scan of l[lo..hi].  The cache does not change
\* during the scan, so the list is the concatenation of the per-key entries.
RECURSIVE ScanLookupList(_, _, _, _)
ScanLookupList(c, l, lo, hi) ==
    IF lo > hi THEN <<>>
    ELSE IF lo = hi THEN ScanLookups(c, Normalize(l[lo]).text)
    ELSE LET mid == (lo + hi) \div 2
         IN ScanLookupList(c, l, lo, mid) \o ScanLookupList(c, l, mid + 1, hi)

\* result after the scan: for each key the last write made for it.
ScanResult(c, l) ==
    LET keys == {Normalize(l[i]).text : i \in 1..Len(l)}
        hit == {k \in keys : ScanWrites(c, k) # <<>>}
    IN [k \in hit |-> ScanWrites(c, k)[Len(ScanWrites(c, k))]]

\* A task per chunk: [asyncio.create_task(self._do_batch_req(chunk, ...))
\* for i in range(0, len(lookup_addresses), batch_size)].
Min(a, b) == IF a < b THEN a ELSE b
ChunkAt(l, i, bs) == SubSeq(l, i + 1, Min(i + bs, Len(l)))
NumChunks(l, bs) == (Len(l) + bs - 1) \div bs
NewTasks(l, bs) ==
    [j \in 1..NumChunks(l, bs) |->
        [chunk |-> ChunkAt(l, (j - 1) * bs, bs), state |-> "new",
         exc |-> "", pending |-> FALSE, fetched |-> FALSE]]

BatchStart(c) ==
    /\ CanCall
    /\ pc = "done" => c = call
    /\ cls \in BatchClasses
    /\ call' = c
    /\ cache0' = cache
    /\ overtime' = FALSE
    /\ httpsess' = SessionAfterEntry
    /\ sessions' = SessionsAfterEntry
    /\ sent' = <<>>
    /\ recv' = <<>>
    /\ idx' = 0
    /\ LET res == ScanResult(cls, c.ip_addresses)
           look == ScanLookupList(cls, c.ip_addresses, 1, Len(c.ip_addresses))
       IN /\ result' = res
          /\ lookup_addresses' = look
          /\ IF look = <<>>
             THEN pc' = "done" /\ ret' = Return(res) /\ tasks' = <<>>
             ELSE IF cls \in AsyncClasses
             THEN /\ pc' = "wait"
                  /\ ret' = NoRet
                  /\ tasks' = NewTasks(look, EffectiveBatchSize(c.batch_size))
             ELSE pc' = "chunks" /\ ret' = NoRet /\ tasks' = <<>>
    /\ UNCHANGED <<cachevars, cls, cache>>

-----------------------------------------------------------------------------
(* getBatchDetails: one chunk.                                              *)

\* What one POST can come to.
PostOutcomes ==
    {Response(200, "application/json"), Response(429, "text/plain"),
     Response(503, "text/plain"), TransportError}

AllAddrs == PublicAddrs \cup BogonAddrs \cup {""}

\* re.sub(r"^resproxy\/", "", ip_address)
Unwind(s) ==
    IF \E k \in AllAddrs : s = "resproxy/" \o k
    THEN CHOOSE k \in AllAddrs : s = "resproxy/" \o k
    ELSE s

Range(q) == {q[i] : i \in 1..Len(q)}

\* The body of a successful batch response: a record for every requested
\* entry, keyed by the entry as it was sent.
BatchResponse(c, chunk) == [k \in Range(chunk) |-> ServiceRecord(c, Unwind(k))]

PostRequest(chunk) ==
    [method |-> "POST",
     url |-> IF cls \in StandardClasses THEN API_URL \o "/batch" ELSE BATCH_API_URL,
     json |-> chunk]

\* The failure a POST outcome is, or "" when the response is good:
\* raise_for_status raises HTTPError in requests, ClientResponseError in aiohttp.
ChunkFailure(c, o) ==
    IF IsError(o) THEN o.error
    ELSE IF o.status = 429 THEN "RequestQuotaExceededError"
    ELSE IF o.status >= 400
    THEN (IF c \in AsyncClasses THEN "ClientResponseError" ELSE "HTTPError")
    ELSE ""

\* The record of one response entry as the handler caches it.
ChunkRecord(c, data) ==
    IF c \in StandardClasses THEN format_details(data)
    ELSE IF c \in PlusClasses
    THEN (IF "bogon" \in DOMAIN data /\ data["bogon"] THEN data
          ELSE _format_plus_details(data))
    ELSE data

\* A cache that takes no entry of the response.
NoFill(c, ch, json_response) == ch

\* A cache that takes one entry of the response and is then interrupted.
FillOne(c, ch, json_response) ==
    LET k == CHOOSE k \in DOMAIN json_response : TRUE
    IN Put(ch, cache_key(Str(Unwind(k))), ChunkRecord(c, json_response[k]))

\* The cache after the entries of a response have been written to it.  The
\* default cache keeps the very dict that Handler.getBatchDetails formats in
\* place right after, so the entry is the formatted record there too.
CacheFill(c, ch, json_response) ==
    [ck \in (DOMAIN ch) \cup {cache_key(Str(Unwind(k))) : k \in DOMAIN json_response} |->
        IF \E k \in DOMAIN json_response : cache_key(Str(Unwind(k))) = ck
        THEN LET k == CHOOSE k \in DOMAIN json_response : cache_key(Str(Unwind(k))) = ck
             IN ChunkRecord(c, json_response[k])
        ELSE ch[ck]]

\* A merge that replaces the result by the entries of the response, so that
\* the chunk that finishes last wins.
LastChunkOnly(c, res, json_response) ==
    [x \in {Unwind(k) : k \in DOMAIN json_response} |->
        LET k == CHOOSE k \in DOMAIN json_response : Unwind(k) = x
            data == ChunkRecord(c, json_response[k])
        IN IF c \in StandardClasses THEN data ELSE Details(data)]

\* A merge that loses the entries of the response.
KeepResult(c, res, json_response) == res

\* The result dict after the entries of a response have been merged into it.
ResultMerge(c, res, json_response) ==
    LET merged ==
            [x \in (DOMAIN res) \cup {Unwind(k) : k \in DOMAIN json_response} |->
                IF \E k \in DOMAIN json_response : Unwind(k) = x
                THEN LET k == CHOOSE k \in DOMAIN json_response : Unwind(k) = x
                         data == ChunkRecord(c, json_response[k])
                     IN IF c \in StandardClasses THEN data ELSE Details(data)
                ELSE res[x]]
    IN IF c = "Handler"
       THEN \* "format all": every dict of the result is formatted again
            [x \in DOMAIN merged |->
                IF IsDict(merged[x]) THEN format_details(merged[x]) ELSE merged[x]]
       ELSE merged

\* Handler.getBatchDetails formats every dict of the result in place after
\* each chunk; a dict that came from the cache is the cache's own object.
CacheAfterFormatAll(c, ch, res) ==
    IF c = "Handler"
    THEN [ck \in DOMAIN ch |->
            IF \E x \in DOMAIN res : IsDict(res[x]) /\ cache_key(Str(x)) = ck
            THEN format_details(ch[ck])
            ELSE ch[ck]]
    ELSE ch

\* "time.time() - start_time > timeout_total" can hold only with a timeout_total.
TimedOut(late) == call.timeout_total /\ late

\* One iteration of the chunk loop.  late: the total time has passed when the
\* loop tests it; slow: it passes while the request of the chunk is under way.

SyncChunk(o, late, slow) ==
    /\ pc = "chunks"
    /\ overtime => late
    /\ slow => call.timeout_total /\ ~late
    /\ overtime' = (TimedOut(late) \/ slow)
    /\ LET bs == EffectiveBatchSize(call.batch_size)
           chunk == ChunkAt(lookup_addresses, idx, bs)
           failure == ChunkFailure(cls, o)
       IN IF TimedOut(late)
          THEN /\ ret' = return_or_fail(call.raise_on_fail, "TimeoutExceededError", result)
               /\ pc' = "done"
               /\ UNCHANGED <<cache, result, idx, sent, recv>>
          ELSE /\ sent' = Append(sent, PostRequest(chunk))
               /\ recv' = Append(recv, o)
               /\ IF failure # ""
                  THEN /\ ret' = return_or_fail(call.raise_on_fail, failure, result)
                       /\ pc' = "done"
                       /\ UNCHANGED <<cache, result, idx>>
                  ELSE LET json_response == BatchResponse(cls, chunk)
                           res == ResultMerge(cls, result, json_response)
                       IN /\ cache' = CacheAfterFormatAll(cls,
                                          CacheFill(cls, cache, json_response), res)
                          /\ result' = res
                          /\ idx' = idx + bs
                          /\ IF idx + bs >= Len(lookup_addresses)
                             THEN pc' = "done" /\ ret' = Return(res)
                             ELSE pc' = "chunks" /\ ret' = ret
    /\ UNCHANGED <<cachevars, cls, httpsess, sessions, call, lookup_addresses, tasks, cache0>>

-----------------------------------------------------------------------------
(* getBatchDetails of the asyncio handlers: the chunk tasks.                *)
(* AsyncHandler hands bare coroutines to asyncio.wait, which wraps them in *)
(* tasks (Python up to 3.10); the Plus and ResProxy handlers create the    *)
(* tasks themselves.  Either way there is one task per chunk.              *)

SetTask(j, st, e) == [tasks EXCEPT ![j].state = st, ![j].exc = e]

\* _do_batch_req up to "await self.httpsess.post(...)": the request goes out.
TaskPost(j) ==
    /\ j \in 1..Len(tasks)
    /\ tasks[j].state = "new"
    /\ tasks' = SetTask(j, "posted", "")
    /\ sent' = Append(sent, PostRequest(tasks[j].chunk))
    /\ UNCHANGED <<cachevars, cls, cache, httpsess, sessions, pc, call, result, lookup_addresses, idx,
                   recv, ret, cache0, overtime>>

\* The POST comes to o and _do_batch_req runs to its end.  A failure ends the
\* task through return_or_fail (the exception, or None); a good response is
\* read, formatted, put in the cache and merged into the result; the task
\* is then marked as fetched.
TaskResponse(j, o) ==
    /\ j \in 1..Len(tasks)
    /\ tasks[j].state = "posted"
    /\ LET failure == ChunkFailure(cls, o)
           json_resp == BatchResponse(cls, tasks[j].chunk)
       IN IF failure = ""
          THEN /\ cache' = CacheFill(cls, cache, json_resp)
               /\ result' = ResultMerge(cls, result, json_resp)
               /\ tasks' = [SetTask(j, "done", "") EXCEPT ![j].fetched = TRUE]
          ELSE /\ cache' = cache
               /\ result' = result
               /\ tasks' = IF call.raise_on_fail THEN SetTask(j, "failed", failure)
                           ELSE SetTask(j, "done", "")
    /\ recv' = Append(recv, o)
    /\ UNCHANGED <<cachevars, cls, httpsess, sessions, pc, call, lookup_addresses, idx, sent, ret, cache0, overtime>>

\* asyncio.wait(..., timeout=timeout_total, return_when=FIRST_EXCEPTION)
\* returns: every task is over, or one has raised, or the timeout has passed.
\* With nothing pending the call returns the result.  Else the caller runs on
\* without a break into the first iteration of the loop over the pending
\* tasks, here the task j, cancels it and awaits it; when nothing else is
\* pending, nothing else runs until the loop is over.
WaitReturn(late, j) ==
    /\ pc = "wait"
    /\ j \in 1..Len(tasks)
    /\ \/ \A h \in 1..Len(tasks) : ~LiveTask(tasks[h])
       \/ \E h \in 1..Len(tasks) : tasks[h].state = "failed"
       \/ TimedOut(late)
    /\ IF \A h \in 1..Len(tasks) : ~LiveTask(tasks[h])
       THEN /\ j = 1
            /\ pc' = "done"
            /\ ret' = Return(result)
            /\ tasks' = tasks
            /\ overtime' = overtime
       ELSE /\ LiveTask(tasks[j])
            /\ overtime' = (TimedOut(late)
                              /\ \A h \in 1..Len(tasks) : tasks[h].state # "failed")
            /\ tasks' = [h \in 1..Len(tasks) |->
                            IF h = j THEN [tasks[h] EXCEPT !.state = "cancelled"]
                            ELSE [tasks[h] EXCEPT !.pending = LiveTask(tasks[h])]]
            /\ IF \A h \in 1..Len(tasks) : h # j => ~LiveTask(tasks[h])
               THEN /\ ret' = return_or_fail(call.raise_on_fail,
                                             "TimeoutExceededError", result)
                    /\ pc' = "done"
               ELSE ret' = ret /\ pc' = "cancel"
    /\ UNCHANGED <<cachevars, cls, cache, httpsess, sessions, call, result, lookup_addresses, idx,
                   sent, recv, cache0>>

\* A later iteration of "for co in pending: co.cancel(); await co".  A task
\* that has raised meanwhile makes "await co" raise into the outer except
\* clause; after the last iteration the call ends with TimeoutExceededError.
CancelStep(j) ==
    /\ pc = "cancel"
    /\ j \in 1..Len(tasks)
    /\ tasks[j].pending
    /\ IF tasks[j].state = "failed"
       THEN /\ ret' = return_or_fail(call.raise_on_fail, tasks[j].exc, result)
            /\ pc' = "done"
            /\ tasks' = [tasks EXCEPT ![j].pending = FALSE]
       ELSE /\ tasks' = [tasks EXCEPT
                            ![j].pending = FALSE,
                            ![j].state = IF LiveTask(tasks[j]) THEN "cancelled"
                                         ELSE tasks[j].state]
            /\ IF \A h \in 1..Len(tasks) : h # j => ~tasks[h].pending
               THEN /\ ret' = return_or_fail(call.raise_on_fail,
                                             "TimeoutExceededError", result)
                    /\ pc' = "done"
               ELSE ret' = ret /\ pc' = pc
    /\ UNCHANGED <<cachevars, cls, cache, httpsess, sessions, call, result, lookup_addresses, idx,
                   sent, recv, cache0, overtime>>

\* The caller drops what the last call returned.
Reset ==
    /\ pc = "done"
    /\ \A j \in 1..Len(tasks) : ~LiveTask(tasks[j])
    /\ pc' = "idle"
    /\ call' = NoCall
    /\ result' = EmptyDict
    /\ lookup_addresses' = <<>>
    /\ idx' = 0
    /\ tasks' = <<>>
    /\ sent' = <<>>
    /\ recv' = <<>>
    /\ ret' = NoRet
    /\ cache0' = EmptyDict
    /\ overtime' = FALSE
    /\ UNCHANGED <<cachevars, cls, cache, httpsess, sessions>>

\* Handler.getMap(ips): one POST of the address strings to /map, then
\* response.raise_for_status() and response.json()["reportUrl"].
MapInputs ==
    {<<Str("8.8.8.8")>>, <<IPv4Address("8.8.8.8"), Str("1.1.1.1")>>,
     <<Str("127.0.0.1"), Str("8.8.8.8")>>}

MapRequest(ips) ==
    [method |-> "POST", url |-> API_URL \o "/map?cli=1",
     json |-> [i \in 1..Len(ips) |-> Normalize(ips[i]).text]]

ReportUrl == Str("https://ipinfo.io/tools/map/report")

\* A getMap that returns a URL whatever the request came to.
MapSwallow(o) == Return(ReportUrl)

\* What getMap returns or raises for the outcome of its request: a transport
\* failure as it is, HTTPError from raise_for_status for a status >= 400.
MapReturn(o) ==
    IF IsError(o) THEN Raise(o.error)
    ELSE IF o.status >= 400 THEN Raise("HTTPError")
    ELSE Return(ReportUrl)

getMap(ips, o) ==
    /\ cls = "Handler"
    /\ CanCall
    /\ call' = [op |-> "getMap", ips |-> ips]
    /\ cache0' = cache
    /\ sent' = <<MapRequest(ips)>>
    /\ recv' = <<o>>
    /\ ret' = MapReturn(o)
    /\ pc' = "done"
    /\ result' = EmptyDict
    /\ lookup_addresses' = <<>>
    /\ idx' = 0
    /\ tasks' = <<>>
    /\ overtime' = FALSE
    /\ UNCHANGED <<cachevars, cls, cache, httpsess, sessions>>

\* An entry of the TTL cache expires or is evicted between two calls.
Expire(ck) ==
    /\ pc = "idle"
    /\ ck \in DOMAIN cache
    /\ cache' = [x \in (DOMAIN cache) \ {ck} |-> cache[x]]
    /\ UNCHANGED <<cachevars, cls, httpsess, sessions, pc, call, result, lookup_addresses, idx, tasks,
                   sent, recv, ret, cache0, overtime>>

-----------------------------------------------------------------------------
(* Handler.getBatchDetailsIter, the generator, run to its end by a caller   *)
(* that does nothing else with the handler meanwhile:                       *)
(* list(handler.getBatchDetailsIter(ip_addresses, batch_size, ...)).        *)

\* What the caller sees of a generator: the values yielded and, when the
\* generator did not just end, the exception that ended it.
Yielded(ys, e) == [kind |-> "yield", val |-> ys, exc |-> e]

IterCall(l, b, r) ==
    [op |-> "getBatchDetailsIter", ip_addresses |-> l, batch_size |-> b,
     raise_on_fail |-> r]

IterCalls ==
    {IterCall(l, b, r) :
        l \in OrdinaryInputs, b \in {NoneSize} \cup 1..MaxBatchArg, r \in BOOLEAN}

\* The scan loop yields Details({ip, bogon}) for every bogon of the input, in
\* the order of the input.
IterScanYields(l) ==
    LET keys == [i \in 1..Len(l) |-> Normalize(l[i]).text]
        bogons == SelectSeq(keys, LAMBDA k : k # "" /\ is_bogon(k))
    IN [i \in 1..Len(bogons) |-> BogonDetails(bogons[i])]

\* The local result of the scan loop: the cache hits; nothing is yielded for
\* them.
IterScanResult(l) ==
    LET keys == {Normalize(l[i]).text : i \in 1..Len(l)}
    IN [k \in {x \in keys : Cached(x)} |-> CachedRecord(k)]

\* The outcome of the i-th POST when the first n are answered 200 and the
\* next one comes to f.
OutcomeAt(i, n, f) == IF i <= n THEN Response(200, "application/json") ELSE f

\* The chunk loop from the offset i on.  A transport exception is raised as it
\* is; a bad status ends in the call return_or_fail(raise_on_fail, e), which
\* lacks the third argument of return_or_fail and raises TypeError.  A good
\* response is passed to format_details as a whole (the mapping from address
\* to record, not the records), then every address of the chunk has its entry
\* of the mapping cached and yielded.
RECURSIVE IterLoop(_, _, _, _, _, _)
IterLoop(la, bs, i, n, f, st) ==
    IF i >= Len(la) THEN st
    ELSE LET batch == ChunkAt(la, i, bs)
             o == OutcomeAt(Len(st.recv) + 1, n, f)
             posted == [st EXCEPT !.sent = Append(st.sent, PostRequest(batch)),
                                  !.recv = Append(st.recv, o)]
         IN IF IsError(o) THEN [posted EXCEPT !.exc = o.error]
            ELSE IF o.status >= 400 THEN [posted EXCEPT !.exc = "TypeError"]
            ELSE LET details == format_details(BatchResponse("Handler", batch))
                     keys == {cache_key(Str(batch[j])) : j \in 1..Len(batch)}
                     filled ==
                         [ck \in (DOMAIN st.cache) \cup keys |->
                             IF ck \in keys
                             THEN details[CHOOSE ip \in Range(batch) :
                                              cache_key(Str(ip)) = ck]
                             ELSE st.cache[ck]]
                 IN IterLoop(la, bs, i + bs, n, f,
                             [posted EXCEPT
                                 !.cache = filled,
                                 !.yielded = st.yielded \o
                                     [j \in 1..Len(batch) |-> details[batch[j]]]])

\* The whole run of the generator.  "raise StopIteration(result.items())"
\* inside a generator comes out as RuntimeError (PEP 479).
GetBatchDetailsIter(c, n, f) ==
    /\ CanCall
    /\ pc = "idle"
    /\ cls = "Handler"
    /\ call' = c
    /\ cache0' = cache
    /\ overtime' = FALSE
    /\ LET l == c.ip_addresses
           bs == EffectiveBatchSize(c.batch_size)
           la == ScanLookupList(cls, l, 1, Len(l))
           st0 == [cache |-> cache, yielded |-> IterScanYields(l),
                   sent |-> <<>>, recv |-> <<>>, exc |-> ""]
           st == IF la = <<>> THEN [st0 EXCEPT !.exc = "RuntimeError"]
                 ELSE IterLoop(la, bs, 0, n, f, st0)
       IN /\ n \in 0..NumChunks(la, bs)
          /\ (n = NumChunks(la, bs)) = (f = Response(200, "application/json"))
          /\ result' = IterScanResult(l)
          /\ lookup_addresses' = la
          /\ idx' = Len(st.recv) * bs
          /\ cache' = st.cache
          /\ sent' = st.sent
          /\ recv' = st.recv
          /\ ret' = Yielded(st.yielded, st.exc)
    /\ pc' = "done"
    /\ tasks' = <<>>
    /\ UNCHANGED <<cachevars, cls, httpsess, sessions>>

-----------------------------------------------------------------------------
(* AsyncHandler.getBatchDetailsIter, the async generator, run to its end by *)
(* "async for item in handler.getBatchDetailsIter(...)".                    *)

\* A 2-tuple (ip_address, details) and the view results.items().
Tuple(k, d) == [class |-> "tuple", key |-> k, value |-> d]
DictItems(d) == [class |-> "dict_items", dict |-> d]

\* The entries of q in the order of their first occurrence: the order in
\* which a dict keeps the keys written to it.
RECURSIVE Uniq(_)
Uniq(q) ==
    IF q = <<>> THEN <<>>
    ELSE LET r == Uniq(SubSeq(q, 1, Len(q) - 1))
         IN IF q[Len(q)] \in Range(r) THEN r ELSE Append(r, q[Len(q)])

\* The keys of the local dict `results` after the scan loop, in order.
AsyncIterScanOrder(l) ==
    Uniq(SelectSeq([i \in 1..Len(l) |-> Normalize(l[i]).text], Cached))

\* The chunk loop from the offset i on.  process_batch posts the chunk through
\* a ClientSession of its own; raise_for_status raises for every status >= 400
\* (429 included) and raise_on_fail is not looked at.  A good response is
\* written entry by entry to the cache and to `results`; then every item of
\* `results`, those of the scan and of the earlier chunks included, is
\* formatted in place (the cache holds the same dicts) and yielded as a tuple.
RECURSIVE AsyncIterLoop(_, _, _, _, _, _)
AsyncIterLoop(la, bs, i, n, f, st) ==
    IF i >= Len(la) THEN st
    ELSE LET batch == ChunkAt(la, i, bs)
             o == OutcomeAt(Len(st.recv) + 1, n, f)
             posted == [st EXCEPT !.sent = Append(st.sent, PostRequest(batch)),
                                  !.recv = Append(st.recv, o)]
         IN IF IsError(o) THEN [posted EXCEPT !.exc = o.error]
            ELSE IF o.status >= 400 THEN [posted EXCEPT !.exc = "ClientResponseError"]
            ELSE LET json_response == BatchResponse("AsyncHandler", batch)
                     order == Uniq(st.order \o batch)
                     results ==
                         [k \in Range(order) |->
                             LET details == IF k \in DOMAIN json_response
                                            THEN json_response[k]
                                            ELSE st.results[k]
                             IN IF IsDict(details) THEN format_details(details)
                                ELSE details]
                     keys == {cache_key(Str(k)) : k \in Range(order)}
                     filled ==
                         [ck \in (DOMAIN st.cache) \cup keys |->
                             IF ck \in keys
                             THEN results[CHOOSE k \in Range(order) :
                                              cache_key(Str(k)) = ck]
                             ELSE st.cache[ck]]
                 IN AsyncIterLoop(la, bs, i + bs, n, f,
                        [posted EXCEPT
                            !.cache = filled,
                            !.order = order,
                            !.results = results,
                            !.yielded = st.yielded \o
                                [j \in 1..Len(order) |->
                                    Tuple(order[j], results[order[j]])]])

\* The whole run of the async generator.  Its scan loop is the one of
\* Handler.getBatchDetailsIter; with nothing to look up it yields the view
\* results.items() as one item and ends.
AsyncGetBatchDetailsIter(c, n, f) ==
    /\ CanCall
    /\ pc = "idle"
    /\ cls = "AsyncHandler"
    /\ call' = c
    /\ cache0' = cache
    /\ overtime' = FALSE
    /\ LET l == c.ip_addresses
           bs == EffectiveBatchSize(c.batch_size)
           la == ScanLookupList("Handler", l, 1, Len(l))
           st0 == [cache |-> cache, yielded |-> IterScanYields(l),
                   sent |-> <<>>, recv |-> <<>>, exc |-> "",
                   order |-> AsyncIterScanOrder(l), results |-> IterScanResult(l)]
           st == IF la = <<>>
                 THEN [st0 EXCEPT !.yielded = Append(st0.yielded,
                                                     DictItems(st0.results))]
                 ELSE AsyncIterLoop(la, bs, 0, n, f, st0)
       IN /\ n \in 0..NumChunks(la, bs)
          /\ (n = NumChunks(la, bs)) = (f = Response(200, "application/json"))
          /\ result' = st.results
          /\ lookup_addresses' = la
          /\ idx' = Len(st.recv) * bs
          /\ cache' = st.cache
          /\ sent' = st.sent
          /\ recv' = st.recv
          /\ ret' = Yielded(st.yielded, st.exc)
    /\ pc' = "done"
    /\ tasks' = <<>>
    /\ UNCHANGED <<cachevars, cls, httpsess, sessions>>

\* getBatchDetails run to its end on the lookup list la, every chunk
\* answered 200: the chunk loop from the offset i on.
RECURSIVE BatchLoop(_, _, _, _, _, _)
BatchLoop(c, la, bs, i, ch, res) ==
    IF i >= Len(la) THEN [cache |-> ch, result |-> res]
    ELSE LET json_response == BatchResponse(c, ChunkAt(la, i, bs))
             merged == ResultMerge(c, res, json_response)
         IN BatchLoop(c, la, bs, i + bs,
                      CacheAfterFormatAll(c, CacheFill(c, ch, json_response), merged),
                      merged)

\* What getBatchDetails(l, batch_size) returns and the cache it leaves when
\* called in this state and every chunk is answered 200.
GetBatchDetailsAllGood(c, l, b) ==
    BatchLoop(c, ScanLookupList(c, l, 1, Len(l)), EffectiveBatchSize(b), 0,
              cache, ScanResult(c, l))

-----------------------------------------------------------------------------
(* The aiohttp session of the asyncio handlers: init and deinit.            *)

\* "await self._ensure_aiohttp_ready()": the session is made ready, then the
\* value of the call, None as _ensure_aiohttp_ready is a plain function, is
\* awaited, which raises TypeError.
init ==
    /\ CanCall
    /\ pc = "idle"
    /\ cls \in AsyncClasses
    /\ call' = [op |-> "init"]
    /\ httpsess' = _ensure_aiohttp_ready(httpsess)
    /\ sessions' = SessionsAfterEntry
    /\ ret' = Raise("TypeError")
    /\ pc' = "done"
    /\ UNCHANGED <<cachevars, cls, cache, result, lookup_addresses, idx, tasks, sent, recv,
                   cache0, overtime>>

\* A close that leaves the session open.
NotClosed(ss, sess) == ss

\* "await self.httpsess.close()"
Closed(ss, sess) == [ss EXCEPT ![sess] = "closed"]

\* "if self.httpsess: await self.httpsess.close(); self.httpsess = None"
deinit ==
    /\ CanCall
    /\ pc = "idle"
    /\ cls \in AsyncClasses
    /\ Len(sessions) < MaxSessions
    /\ call' = [op |-> "deinit"]
    /\ IF httpsess # 0
       THEN /\ sessions' = Closed(sessions, httpsess)
            /\ httpsess' = 0
       ELSE UNCHANGED <<httpsess, sessions>>
    /\ ret' = Return(NoneRec)
    /\ pc' = "done"
    /\ UNCHANGED <<cachevars, cls, cache, result, lookup_addresses, idx, tasks, sent, recv,
                   cache0, overtime>>

\* deinit as a coroutine that another coroutine of the event loop runs
\* beside: "if self.httpsess: await self.httpsess.close()" up to the point
\* where close() waits for the connections of the session.  self.httpsess
\* still holds the session.
deinit_close ==
    /\ CanCall
    /\ pc = "idle"
    /\ cls \in AsyncClasses
    /\ Len(sessions) < MaxSessions
    /\ httpsess # 0
    /\ sessions[httpsess] = "open"
    /\ sessions' = [sessions EXCEPT ![httpsess] = "closing"]
    /\ call' = [op |-> "deinit"]
    /\ UNCHANGED <<cachevars, cls, cache, httpsess, pc, result, lookup_addresses, idx, tasks,
                   sent, recv, ret, cache0, overtime>>

\* close() is over and deinit runs on: "self.httpsess = None".  The model
\* takes the step when no chunk task is about to post.
deinit_resume ==
    /\ httpsess # 0
    /\ sessions[httpsess] = "closing"
    /\ \A j \in 1..Len(tasks) : tasks[j].state # "new"
    /\ sessions' = Closed(sessions, httpsess)
    /\ httpsess' = 0
    /\ UNCHANGED <<cachevars, cls, cache, pc, call, result, lookup_addresses, idx, tasks,
                   sent, recv, ret, cache0, overtime>>

-----------------------------------------------------------------------------
(* The bundled caches, DefaultCache over cachetools.TTLCache and Memcached  *)
(* over memcache.Client, operated on directly.                              *)

CacheClasses == {"DefaultCache", "Memcached"}
CacheKeys == {"foo", "bar", "baz"}
CacheValues == {"v1", "v2"}

\* The outcome of an operation on the cache object.
Outcome(op, k, kind, v) == [op |-> op, key |-> k, kind |-> kind, val |-> v]

\* A TTLCache in which no key is ever live.
NeverLive(st, t) == {}

\* The keys of a TTLCache that have not expired: "time < link.expires".
Live(st, t) == {k \in DOMAIN st : t < st[k].expires}

\* A cache that goes on holding the entries that have expired.
HeldForever(c, st, t) == DOMAIN st

\* The keys the cache object holds for its callers.
Held(c, st, t) == IF c = "DefaultCache" THEN Live(st, t) ELSE DOMAIN st

Without(d, ks) == [x \in (DOMAIN d) \ ks |-> d[x]]

\* cache = DefaultCache(maxsize=MaxSize, ttl=Ttl), or cache = Memcached(servers)
\* on a server that holds nothing.
NewCache(c) ==
    /\ ccls = "none"
    /\ c \in CacheClasses
    /\ ccls' = c
    /\ store' = EmptyDict
    /\ store0' = EmptyDict
    /\ now' = 0
    /\ out' = NoOut
    /\ UNCHANGED handlervars

\* cache[key].  TTLCache.__getitem__ raises KeyError for a key it does not
\* hold or that has expired; Memcached returns self.cache.get(key), and
\* memcache.Client.get returns None for a key the server does not hold.
__getitem__(c, st, t, k) ==
    IF k \in Held(c, st, t) THEN Outcome("__getitem__", k, "value", st[k].value)
    ELSE IF c = "DefaultCache" THEN Outcome("__getitem__", k, "KeyError", "")
    ELSE Outcome("__getitem__", k, "None", "")

\* key in cache.  Memcached: self.cache.get(key) is not None.
__contains__(c, st, t, k) ==
    Outcome("__contains__", k, "bool", IF k \in Held(c, st, t) THEN "True" ELSE "False")

GetItem(k) ==
    /\ ccls \in CacheClasses
    /\ out' = __getitem__(ccls, store, now, k)
    /\ store0' = store
    /\ UNCHANGED <<handlervars, ccls, store, now>>

Contains(k) ==
    /\ ccls \in CacheClasses
    /\ out' = __contains__(ccls, store, now, k)
    /\ store0' = store
    /\ UNCHANGED <<handlervars, ccls, store, now>>

\* A TTLCache that evicts nothing.
NoEviction(st, k, victim) == st

\* Cache.__setitem__ of cachetools: "while self.__currsize + size > maxsize:
\* self.popitem()" for a key not yet held.  Which entry popitem takes differs
\* between the releases of cachetools; victim is the one taken.
Evicted(st, k, victim) ==
    IF k \in DOMAIN st \/ Cardinality(DOMAIN st) < MaxSize THEN st
    ELSE Without(st, {victim})

\* cache[key] = value.  TTLCache.__setitem__ first drops what has expired
\* (self.expire(time)), makes room, then stores the value to expire at
\* time + ttl.  Memcached: self.cache.set(key, value), without an expiry.
Unexpired(st, t) == Without(st, (DOMAIN st) \ Live(st, t))

\* The entries popitem may take when k is set.
Victims(c, st, t, k) ==
    IF c = "DefaultCache" /\ Unexpired(st, t) # EmptyDict
    THEN DOMAIN Unexpired(st, t) ELSE {k}

__setitem__(c, st, t, k, v, victim) ==
    IF c = "DefaultCache"
    THEN Put(Evicted(Unexpired(st, t), k, victim), k,
             [value |-> v, expires |-> t + Ttl])
    ELSE Put(st, k, [value |-> v, expires |-> 0])

\* The outcome records whether popitem ran.
SetItem(k, v, victim) ==
    /\ ccls \in CacheClasses
    /\ victim \in Victims(ccls, store, now, k)
    /\ store' = __setitem__(ccls, store, now, k, v, victim)
    /\ store0' = store
    /\ out' = Outcome("__setitem__", k,
                      IF ccls = "DefaultCache"
                         /\ Evicted(Unexpired(store, now), k, victim) # Unexpired(store, now)
                      THEN "popitem" ELSE "none", v)
    /\ UNCHANGED <<handlervars, ccls, now>>

\* The timer of the TTLCache moves on.
Tick ==
    /\ ccls \in CacheClasses
    /\ now < MaxTime
    /\ now' = now + 1
    /\ out' = NoOut
    /\ store0' = store
    /\ UNCHANGED <<handlervars, ccls, store>>

\* The memcached server drops an entry (its own LRU eviction).
ServerEvict(k) ==
    /\ ccls = "Memcached"
    /\ k \in DOMAIN store
    /\ store' = Without(store, {k})
    /\ store0' = store
    /\ out' = NoOut
    /\ UNCHANGED <<handlervars, ccls, now>>

\* Handler.getDetails on this cache object: "try: cached_ipaddr =
\* self.cache[cache_key(ip_address)]; return Details(cached_ipaddr); except
\* KeyError: pass", then the request and, when it succeeds (ok) with the
\* details v, "self.cache[cache_key(ip_address)] = details".  A request that
\* fails raises before the cache is written.
CacheRead(k, ok, v, victim) ==
    /\ ccls \in CacheClasses
    /\ victim \in Victims(ccls, store, now, k)
    /\ LET r == __getitem__(ccls, store, now, k)
       IN IF r.kind = "KeyError"
          THEN IF ok
               THEN /\ store' = __setitem__(ccls, store, now, k, v, victim)
                    /\ out' = Outcome("getDetails", k, "request", v)
               ELSE /\ store' = store
                    /\ out' = Outcome("getDetails", k, "request", "")
          ELSE /\ store' = store
               /\ out' = IF r.kind = "None"
                         THEN Outcome("getDetails", k, "Details", NoneStr)
                         ELSE Outcome("getDetails", k, "Details", r.val)
    /\ store0' = store
    /\ UNCHANGED <<handlervars, ccls, now>>

Next ==
    \/ \E a \in DetailArgs : GetDetails(a)
    \/ \E c \in CallsOf(cls) : BatchStart(c)
    \/ \E o \in PostOutcomes, late, slow \in BOOLEAN : SyncChunk(o, late, slow)
    \/ \E j \in 1..Len(tasks) : TaskPost(j)
    \/ \E j \in 1..Len(tasks), o \in PostOutcomes : TaskResponse(j, o)
    \/ \E late \in BOOLEAN, j \in 1..Len(tasks) : WaitReturn(late, j)
    \/ \E j \in 1..Len(tasks) : CancelStep(j)
    \/ Reset
    \/ \E ck \in DOMAIN cache : Expire(ck)

Spec == Init /\ [][Next]_vars

\* Single lookups on a handler of any class.
NextDetails ==
    \/ \E a \in DetailArgs : GetDetails(a)
    \/ Reset
    \/ \E ck \in DOMAIN cache : Expire(ck)

SpecDetails == Init /\ [][NextDetails]_vars

\* The handling of one good batch response, statement by statement, in
\* Handler.getBatchDetails, AsyncHandler._do_batch_req and
\* AsyncHandlerPlus._do_batch_req.  In call: the chunk posted and the parsed
\* response; pc: the statement reached ("fill", "merge", "format"); idx: the
\* entries of the response AsyncHandlerPlus has handled.
OrderClasses == {"Handler", "AsyncHandler", "AsyncHandlerPlus"}
OrderChunks == {<<"8.8.8.8">>, <<"1.1.1.1">>, <<"8.8.8.8", "1.1.1.1">>, <<"1.1.1.1", "8.8.8.8">>}

\* json_response = response.json() for the chunk posted.
Respond(chunk) ==
    /\ cls \in OrderClasses
    /\ pc \in {"idle", "done"}
    /\ call.op \in {"none", "chunk"}
    /\ call' = [op |-> "chunk", chunk |-> chunk, json |-> BatchResponse(cls, chunk)]
    /\ pc' = "fill"
    /\ idx' = 0
    /\ UNCHANGED <<cachevars, cls, cache, httpsess, sessions, result, lookup_addresses,
                   tasks, sent, recv, ret, cache0, overtime>>

\* The cache with the entries of a response written to it as they are.
RawFill(ch, json_response) ==
    [ck \in (DOMAIN ch) \cup {cache_key(Str(k)) : k \in DOMAIN json_response} |->
        IF \E k \in DOMAIN json_response : cache_key(Str(k)) = ck
        THEN json_response[CHOOSE k \in DOMAIN json_response : cache_key(Str(k)) = ck]
        ELSE ch[ck]]

\* Handler: "for ip_address, details in json_response.items():
\* self.cache[cache_key(ip_address)] = details".  AsyncHandler: the loop that
\* formats each dict and then writes it to the cache.
FillCache ==
    /\ pc = "fill"
    /\ cls \in StandardClasses
    /\ cache' = IF cls = "Handler" THEN RawFill(cache, call.json)
                ELSE CacheFill(cls, cache, call.json)
    /\ pc' = "merge"
    /\ UNCHANGED <<cachevars, cls, httpsess, sessions, call, result, lookup_addresses, idx,
                   tasks, sent, recv, ret, cache0, overtime>>

\* result.update(json_response): the dicts of the response, which are the
\* dicts the cache holds.  It ends _do_batch_req of AsyncHandler.
MergeResult ==
    /\ pc = "merge"
    /\ cls \in StandardClasses
    /\ result' = [x \in (DOMAIN result) \cup DOMAIN call.json |->
                     IF x \in DOMAIN call.json THEN cache[cache_key(Str(x))]
                     ELSE result[x]]
    /\ pc' = IF cls = "Handler" THEN "format" ELSE "done"
    /\ UNCHANGED <<cachevars, cls, cache, httpsess, sessions, call, lookup_addresses, idx,
                   tasks, sent, recv, ret, cache0, overtime>>

\* Handler: "for detail in result.values(): if isinstance(detail, dict):
\* handler_utils.format_details(detail, ...)", in place.
FormatAll ==
    /\ pc = "format"
    /\ cls = "Handler"
    /\ result' = [x \in DOMAIN result |->
                     IF IsDict(result[x]) THEN format_details(result[x]) ELSE result[x]]
    /\ cache' = CacheAfterFormatAll(cls, cache, result)
    /\ pc' = "done"
    /\ UNCHANGED <<cachevars, cls, httpsess, sessions, call, lookup_addresses, idx,
                   tasks, sent, recv, ret, cache0, overtime>>

\* AsyncHandlerPlus, one entry of the response: "_format_plus_details(data)"
\* for a dict that is no bogon, then "self.cache[cache_key(ip_address)] =
\* data".
PlusFill ==
    /\ pc = "fill"
    /\ cls = "AsyncHandlerPlus"
    /\ LET k == call.chunk[idx + 1]
       IN cache' = Put(cache, cache_key(Str(k)), ChunkRecord(cls, call.json[k]))
    /\ pc' = "merge"
    /\ UNCHANGED <<cachevars, cls, httpsess, sessions, call, result, lookup_addresses, idx,
                   tasks, sent, recv, ret, cache0, overtime>>

\* AsyncHandlerPlus, the same entry: "result[ip_address] = Details(data)".
PlusMerge ==
    /\ pc = "merge"
    /\ cls = "AsyncHandlerPlus"
    /\ LET k == call.chunk[idx + 1]
       IN result' = Put(result, k, Details(cache[cache_key(Str(k))]))
    /\ idx' = idx + 1
    /\ pc' = IF idx + 1 < Len(call.chunk) THEN "fill" ELSE "done"
    /\ UNCHANGED <<cachevars, cls, cache, httpsess, sessions, call, lookup_addresses,
                   tasks, sent, recv, ret, cache0, overtime>>

NextOrder ==
    \/ \E chunk \in OrderChunks : Respond(chunk)
    \/ FillCache
    \/ MergeResult
    \/ FormatAll
    \/ PlusFill
    \/ PlusMerge

InitOrder == Init /\ cls \in OrderClasses

SpecOrder == InitOrder /\ [][NextOrder]_vars

\* Single lookups and map requests on a Handler.
NextMap ==
    \/ \E a \in DetailArgs : GetDetails(a)
    \/ \E ips \in MapInputs, o \in PostOutcomes : getMap(ips, o)
    \/ Reset
    \/ \E ck \in DOMAIN cache : Expire(ck)

InitMap == Init /\ cls = "Handler"

SpecMap == InitMap /\ [][NextMap]_vars

\* The synchronous handlers that have getBatchDetails.
InitSync == Init /\ cls \in BatchClasses \ AsyncClasses

NextSync ==
    \/ \E a \in DetailArgs : GetDetails(a)
    \/ \E c \in CallsOf(cls) : BatchStart(c)
    \/ \E o \in PostOutcomes, late, slow \in BOOLEAN : SyncChunk(o, late, slow)
    \/ Reset
    \/ \E ck \in DOMAIN cache : Expire(ck)

SpecSync == InitSync /\ [][NextSync]_vars

\* The asyncio handlers that have getBatchDetails.
InitAsync == Init /\ cls \in BatchClasses \cap AsyncClasses

NextAsync ==
    \/ \E a \in DetailArgs : GetDetails(a)
    \/ \E c \in CallsOf(cls) : BatchStart(c)
    \/ \E j \in 1..Len(tasks) : TaskPost(j)
    \/ \E j \in 1..Len(tasks), o \in PostOutcomes : TaskResponse(j, o)
    \/ \E late \in BOOLEAN, j \in 1..Len(tasks) : WaitReturn(late, j)
    \/ \E j \in 1..Len(tasks) : CancelStep(j)
    \/ Reset
    \/ \E ck \in DOMAIN cache : Expire(ck)

SpecAsync == InitAsync /\ [][NextAsync]_vars

\* Handler and AsyncHandler with their generators getBatchDetailsIter.
InitIter == Init /\ cls \in {"Handler", "AsyncHandler"}

NextIter ==
    \/ \E a \in DetailArgs : GetDetails(a)
    \/ \E c \in IterCalls, n \in 0..(2 * MaxKeys + 2), f \in PostOutcomes :
          GetBatchDetailsIter(c, n, f)
    \/ \E c \in IterCalls, n \in 0..(2 * MaxKeys + 2), f \in PostOutcomes :
          AsyncGetBatchDetailsIter(c, n, f)
    \/ Reset
    \/ \E ck \in DOMAIN cache : Expire(ck)

SpecIter == InitIter /\ [][NextIter]_vars

\* Every lookup of a Handler: getDetails, getBatchDetails and the generator
\* getBatchDetailsIter.
HandlerLists == {<<Str("8.8.8.8")>>, <<Str("8.8.8.8"), Str("1.1.1.1")>>}
HandlerCalls ==
    {BatchCall(l, b, r, FALSE) : l \in HandlerLists, b \in {NoneSize, 1}, r \in BOOLEAN}
HandlerIterCalls ==
    {IterCall(l, b, r) : l \in HandlerLists, b \in {NoneSize, 1}, r \in BOOLEAN}

NextHandler ==
    \/ \E a \in DetailArgs : GetDetails(a)
    \/ \E c \in HandlerCalls : BatchStart(c)
    \/ \E o \in PostOutcomes, late, slow \in BOOLEAN : SyncChunk(o, late, slow)
    \/ \E c \in HandlerIterCalls, n \in 0..(2 * MaxKeys + 2), f \in PostOutcomes :
          GetBatchDetailsIter(c, n, f)
    \/ Reset
    \/ \E ck \in DOMAIN cache : Expire(ck)

InitHandler == Init /\ cls = "Handler"

SpecHandler == InitHandler /\ [][NextHandler]_vars

\* The asyncio handlers with init and deinit.
InitSession == Init /\ cls \in AsyncClasses

\* The getBatchDetails calls made between init and deinit.
SessionCalls ==
    {BatchCall(l, b, TRUE, t) :
        l \in {<<Str("8.8.8.8")>>, <<Str("8.8.8.8"), Str("1.1.1.1")>>},
        b \in {NoneSize, 1}, t \in BOOLEAN}

NextSession ==
    \/ init
    \/ deinit
    \/ \E a \in DetailArgs : GetDetails(a)
    \/ \E c \in SessionCalls : BatchStart(c)
    \/ \E j \in 1..Len(tasks) : TaskPost(j)
    \/ \E j \in 1..Len(tasks), o \in PostOutcomes : TaskResponse(j, o)
    \/ \E late \in BOOLEAN, j \in 1..Len(tasks) : WaitReturn(late, j)
    \/ \E j \in 1..Len(tasks) : CancelStep(j)
    \/ Reset
    \/ \E ck \in DOMAIN cache : Expire(ck)

SpecSession == InitSession /\ [][NextSession]_vars

\* The lookups of one coroutine beside the deinit of another.
CloseCalls ==
    {BatchCall(<<Str("8.8.8.8"), Str("1.1.1.1")>>, b, TRUE, FALSE) : b \in {NoneSize, 1}}

NextClose ==
    \/ deinit
    \/ deinit_close
    \/ deinit_resume
    \/ \E a \in DetailArgs : GetDetails(a)
    \/ \E c \in CloseCalls : BatchStart(c)
    \/ \E j \in 1..Len(tasks) : TaskPost(j)
    \/ \E j \in 1..Len(tasks), o \in PostOutcomes : TaskResponse(j, o)
    \/ \E j \in 1..Len(tasks) : WaitReturn(FALSE, j)
    \/ Reset

InitClose == Init /\ cls \in AsyncClasses

SpecClose == InitClose /\ [][NextClose]_vars

\* A cache object operated on directly.
NextCache ==
    \/ \E c \in CacheClasses : NewCache(c)
    \/ \E k \in CacheKeys : GetItem(k)
    \/ \E k \in CacheKeys : Contains(k)
    \/ \E k \in CacheKeys, v \in CacheValues, victim \in CacheKeys : SetItem(k, v, victim)
    \/ Tick
    \/ \E k \in CacheKeys : ServerEvict(k)
    \/ \E k \in CacheKeys, ok \in BOOLEAN, v \in CacheValues, victim \in CacheKeys :
          CacheRead(k, ok, v, victim)

InitCache == Init /\ cls = "Handler"

SpecCache == InitCache /\ [][NextCache]_vars

\* A memcached server shared by releases of the library whose CACHE_KEY_VSN
\* differ: what each release writes has the shape of its version.
RawKeys == {Str("8.8.8.8"), Str("2001:db8::1"), Str("2001:db8::1:2")}
Tags == {CACHE_KEY_VSN, "2"}

\* "self.cache[cache_key(ip_address)] = details" in the release tagged vsn.
WriteAs(k, vsn) ==
    /\ ccls = "Memcached"
    /\ store' = __setitem__(ccls, store, now, VersionedKey(k, vsn), vsn, VersionedKey(k, vsn))
    /\ store0' = store
    /\ out' = Outcome("__setitem__", VersionedKey(k, vsn), "none", vsn)
    /\ UNCHANGED <<handlervars, ccls, now>>

\* "self.cache[cache_key(ip_address)]" in the release tagged vsn: the outcome
\* keeps the tag of the reader and the value found.
ReadAs(k, vsn) ==
    /\ ccls = "Memcached"
    /\ out' = Outcome("cache_key", VersionedKey(k, vsn), vsn,
                      __getitem__(ccls, store, now, VersionedKey(k, vsn)).val)
    /\ store0' = store
    /\ UNCHANGED <<handlervars, ccls, store, now>>

NextKey ==
    \/ NewCache("Memcached")
    \/ \E k \in RawKeys, vsn \in Tags : WriteAs(k, vsn)
    \/ \E k \in RawKeys, vsn \in Tags : ReadAs(k, vsn)
    \/ \E ck \in DOMAIN store : ServerEvict(ck)

SpecKey == InitCache /\ [][NextKey]_vars

\* format_details as a function of the record alone, the reference tables
\* being those of the handler.  The records it is given: with and without
\* "country_code", "country" and "loc", with codes the tables know and do
\* not know, with a "loc" that is empty, well formed and malformed, and with
\* a "country_name" of their own.
Absent == "absent"
WithField(d, k, v) == IF v = Absent THEN d ELSE Put(d, k, v)
WithLoc(d, l) == IF l = <<Absent>> THEN d ELSE Put(d, "loc", l)
FormatLocs ==
    {<<Absent>>, <<>>, LocOf("8.8.8.8"), <<"37.4056">>,
     <<"1", ",", "2", ",", "3">>, <<",", "2">>}
FormatInputs ==
    {WithLoc(WithField(WithField(WithField([ip |-> "8.8.8.8"],
                 "country_code", cc), "country", c), "country_name", n), l) :
        cc \in {Absent, "US", "DE"}, c \in {Absent, "US", "ZZ", "Germany"},
        n \in {Absent, "Old Name"}, l \in FormatLocs}

\* handler_utils.format_details(details, ...) on a record just received.
FormatCall(d) ==
    /\ pc = "idle"
    /\ call' = [op |-> "format_details", details |-> d, applied |-> 1]
    /\ ret' = Return(format_details(d))
    /\ pc' = "done"
    /\ UNCHANGED <<cachevars, cls, cache, httpsess, sessions, result, lookup_addresses,
                   idx, tasks, sent, recv, cache0, overtime>>

\* format_details on the record it has already formatted, as getBatchDetails
\* does with the records it took from the cache.
FormatAgain ==
    /\ pc = "done"
    /\ call.op = "format_details"
    /\ call.applied = 1
    /\ call' = [call EXCEPT !.applied = 2]
    /\ ret' = Return(format_details(ret.val))
    /\ UNCHANGED <<cachevars, cls, cache, httpsess, sessions, pc, result, lookup_addresses,
                   idx, tasks, sent, recv, cache0, overtime>>

NextFormat ==
    \/ \E d \in FormatInputs : FormatCall(d)
    \/ FormatAgain

InitFormat == Init /\ cls = "Handler"

SpecFormat == InitFormat /\ [][NextFormat]_vars

-----------------------------------------------------------------------------
(* Properties of getDetails.                                                *)

\* A getDetails call has just ended.
DetailsDone == pc = "done" /\ call.op = "getDetails"

\* Its argument, as the handler uses it after the address-object conversion.
LastIp == Normalize(call.ip_address)

\* The argument is a non-empty bogon address.
LastIsBogon == Truthy(LastIp) /\ is_bogon(LastIp.text)

C2_CacheHitServed ==
    (DetailsDone /\ ~LastIsBogon /\ cache_key(LastIp) \in DOMAIN cache0) =>
        /\ sent = <<>>
        /\ cache = cache0
        /\ ret = Return(Details(cache0[cache_key(LastIp)]))

\* A lookup of a cached non-bogon key has ended, the key given as an address
\* object.
C2_Witness ==
    /\ DetailsDone
    /\ ~LastIsBogon
    /\ cache_key(LastIp) \in DOMAIN cache0
    /\ call.ip_address.type = "IPv4Address"
    /\ ret.kind = "return"

\* The step is a getDetails call.
DetailsStep == pc \in {"idle", "done"} /\ pc' = "done" /\ call'.op = "getDetails"

\* The step is a getDetails call that missed the cache and whose GET succeeded.
FetchStep ==
    /\ DetailsStep
    /\ recv' # <<>>
    /\ ~IsError(recv'[1])
    /\ recv'[1].status = 200

\* The step repeats the getDetails call that has just returned, its key
\* still in the cache.
RepeatStep ==
    /\ DetailsStep
    /\ DetailsDone
    /\ ret.kind = "return"
    /\ ~LastIsBogon
    /\ call' = call
    /\ cache_key(LastIp) \in DOMAIN cache

\* C3: in every handler class, AsyncHandlerResProxy included, a successful
\* getDetails(k) on a cache miss returns a Details object holding the fetched
\* record and stores that record under cache_key(k); a second getDetails(k)
\* while the entry is live returns a Details object with the same record and
\* issues no network request.
C3_FetchThenHit ==
    [][/\ FetchStep =>
            LET ck == cache_key(Normalize(call'.ip_address))
            IN /\ ck \in DOMAIN cache'
               /\ cache'[ck].ip = Subject(IF Truthy(call'.ip_address)
                                          THEN Normalize(call'.ip_address).text
                                          ELSE "")
               /\ ret' = Return(Details(cache'[ck]))
       /\ RepeatStep =>
            /\ sent' = <<>>
            /\ ret' = Return(Details(cache[cache_key(LastIp)]))
            /\ ret' = ret]_vars

\* C4: a getDetails call issues at most one request; a 429 response raises
\* RequestQuotaExceededError, any other status >= 400 raises APIError with
\* that status, a transport failure propagates as it is; after any of these
\* the cache is as it was before the call.
C4_FailureMapping ==
    DetailsDone =>
        /\ Len(sent) <= 1
        /\ (recv # <<>> /\ IsError(recv[1])) =>
                ret = Raise(recv[1].error) /\ cache = cache0
        /\ (recv # <<>> /\ ~IsError(recv[1]) /\ recv[1].status = 429) =>
                ret = Raise("RequestQuotaExceededError") /\ cache = cache0
        /\ (recv # <<>> /\ ~IsError(recv[1]) /\ recv[1].status >= 400
                /\ recv[1].status # 429) =>
                /\ ret.kind = "raise"
                /\ ret.exc = "APIError"
                /\ ret.error_code = recv[1].status
                /\ cache = cache0

-----------------------------------------------------------------------------
(* Properties of getBatchDetails.                                           *)

\* A getBatchDetails call has started / has just ended.
InBatch == pc # "idle" /\ call.op = "getBatchDetails"
BatchDone == pc = "done" /\ call.op = "getBatchDetails"

\* The input list and its distinct keys, after the address-object conversion.
InputList == [i \in 1..Len(call.ip_addresses) |-> Normalize(call.ip_addresses[i]).text]
InputKeys == Range(InputList)

\* The key was live in the cache when the call started.
WasCached(k) == cache_key(Str(k)) \in DOMAIN cache0

\* Every entry the call has put on the wire so far.
SentKeys == UNION {Range(sent[i].json) : i \in 1..Len(sent)}

\* The response was a success.
Good(o) == ~IsError(o) /\ o.status = 200

\* Every chunk of the call has been answered with a success.
AllChunksSucceeded ==
    /\ Len(recv) = NumChunks(lookup_addresses, EffectiveBatchSize(call.batch_size))
    /\ \A i \in 1..Len(recv) : Good(recv[i])

\* The entry a key goes on the wire as.
Wire(c, k) == IF c \in ResProxyClasses THEN "resproxy/" \o k ELSE k

\* C5: in getBatchDetails of HandlerPlus, AsyncHandlerPlus, HandlerResProxy
\* and AsyncHandlerResProxy, when every chunk succeeds and the service
\* answers every requested key, the result has exactly one entry per
\* distinct input key: a bogon key maps to {ip, bogon: true}, a cached key to
\* its cached record, every other key to its fetched record (for ResProxy
\* under the original key, without the "resproxy/" prefix); only the
\* non-bogon uncached keys are sent over the network.
C5_BatchResultComplete ==
    (BatchDone /\ cls \in PlusClasses \cup ResProxyClasses /\ AllChunksSucceeded) =>
        /\ ret.kind = "return"
        /\ DOMAIN ret.val = InputKeys
        /\ \A k \in InputKeys :
              ret.val[k] =
                  IF is_bogon(k) THEN Details([ip |-> k, bogon |-> TRUE])
                  ELSE IF WasCached(k) THEN Details(cache0[cache_key(Str(k))])
                  ELSE Details(FormatSingle(cls, ServiceRecord(cls, k)))
        /\ SentKeys = {Wire(cls, k) : k \in {x \in InputKeys : ~is_bogon(x) /\ ~WasCached(x)}}

\* A call of one of these handlers has ended in full on an input that holds
\* a bogon, a cached key and a key that was fetched.
C5_Witness ==
    /\ BatchDone
    /\ cls \in PlusClasses \cup ResProxyClasses
    /\ AllChunksSucceeded
    /\ \E b, k, f \in InputKeys :
          /\ is_bogon(b)
          /\ ~is_bogon(k) /\ WasCached(k)
          /\ ~is_bogon(f) /\ ~WasCached(f) /\ Wire(cls, f) \in SentKeys

\* C6: in Handler.getBatchDetails a key whose versioned cache key is live in
\* the cache is copied from the cache into the result and is never included
\* in a chunk sent to the network; if every input key is cached, the call
\* returns without issuing a network request.
C6_HandlerCachedNotSent ==
    (InBatch /\ cls = "Handler") =>
        /\ \A k \in InputKeys :
              WasCached(k) =>
                  /\ k \in DOMAIN result
                  /\ result[k] = cache0[cache_key(Str(k))]
                  /\ k \notin SentKeys
        /\ (\A k \in InputKeys : WasCached(k)) => (sent = <<>> /\ pc = "done")

\* C7: in getBatchDetails of Handler and AsyncHandler every bogon input
\* address gets the record {ip, bogon: true} in the result, is never included
\* in a chunk sent to the network and is never written to the cache.
C7_StandardBogonsLocal ==
    (InBatch /\ cls \in StandardClasses) =>
        \A k \in InputKeys :
            is_bogon(k) =>
                /\ k \in DOMAIN result
                /\ result[k] = Details([ip |-> k, bogon |-> TRUE])
                /\ k \notin SentKeys
                /\ ~WasCached(k) => cache_key(Str(k)) \notin DOMAIN cache

\* The chunks sent, one after the other.
RECURSIVE SentConcat(_)
SentConcat(q) == IF q = <<>> THEN <<>> ELSE Head(q).json \o SentConcat(Tail(q))

\* The call has run to its end: nothing failed and no timeout was set.
RanToEnd ==
    /\ BatchDone
    /\ ~call.timeout_total
    /\ Len(recv) = Len(sent)
    /\ \A i \in 1..Len(recv) : Good(recv[i])

\* C8: Handler.getBatchDetails on N non-bogon keys, none of them cached, with
\* batch_size C >= 1 sends exactly ceil(N/C) chunks of at most C keys each,
\* and the chunks in dispatch order, put together, are the input keys in
\* their order, each sent once.
C8_HandlerChunkPlan ==
    (RanToEnd /\ cls = "Handler"
        /\ \A k \in InputKeys : ~is_bogon(k) /\ ~WasCached(k)) =>
        LET N == Len(InputList)
            C == EffectiveBatchSize(call.batch_size)
        IN /\ Len(sent) = (N + C - 1) \div C
           /\ \A i \in 1..Len(sent) : Len(sent[i].json) <= C
           /\ SentConcat(sent) = InputList

\* C9: the batch_size argument of getBatchDetails is clipped to
\* BATCH_MAX_SIZE: whatever batch_size is passed, no chunk sent to the
\* network holds more than BATCH_MAX_SIZE keys.
C9_BatchSizeClipped ==
    InBatch => \A i \in 1..Len(sent) : Len(sent[i].json) <= BATCH_MAX_SIZE

\* The exception a failed chunk stands for.
FailureOf(o) ==
    IF IsError(o) THEN o.error
    ELSE IF o.status = 429 THEN "RequestQuotaExceededError"
    ELSE "HTTPError"

\* C10: in the synchronous getBatchDetails with raise_on_fail=True the first
\* chunk failure ends the call: a chunk answered 429 makes it raise
\* RequestQuotaExceededError, any other failure is raised as it is, no
\* result is returned and no later chunk is dispatched.
C10_SyncFirstFailureAborts ==
    (InBatch /\ cls \notin AsyncClasses /\ call.raise_on_fail
        /\ \E i \in 1..Len(recv) : ~Good(recv[i])) =>
        /\ pc = "done"
        /\ \A i \in 1..(Len(recv) - 1) : Good(recv[i])
        /\ Len(sent) = Len(recv)
        /\ ret = Raise(FailureOf(recv[Len(recv)]))

\* A call with raise_on_fail=True has ended on a 429 for its second chunk,
\* with chunks of the plan still undispatched.
C10_Witness ==
    /\ BatchDone
    /\ cls \notin AsyncClasses
    /\ call.raise_on_fail
    /\ Len(recv) = 2
    /\ Good(recv[1])
    /\ ~IsError(recv[2]) /\ recv[2].status = 429
    /\ Len(sent) < NumChunks(lookup_addresses, EffectiveBatchSize(call.batch_size))
    /\ ret.kind = "raise"

-----------------------------------------------------------------------------
(* Properties of getBatchDetails: failures and timeouts.                    *)

\* The keys of the chunks that were answered with a success.
CompletedKeys ==
    {Unwind(x) : x \in UNION {Range(sent[i].json) :
                                 i \in {h \in 1..Len(recv) : Good(recv[h])}}}

\* The keys of the chunks of the plan that were not: the failing chunk and
\* all later ones.
UndoneKeys ==
    LET bs == EffectiveBatchSize(call.batch_size)
        good == Cardinality({h \in 1..Len(recv) : Good(recv[h])})
    IN {Unwind(lookup_addresses[i]) :
           i \in (good * bs + 1)..Len(lookup_addresses)}

\* The entry of the result for a key the service has answered for.
FetchedEntry(c, k) ==
    IF c \in StandardClasses THEN FormatSingle(c, ServiceRecord(c, k))
    ELSE Details(FormatSingle(c, ServiceRecord(c, k)))

\* The entry of the result for a key found in the cache at the start.
CachedEntry(c, k) ==
    IF c \in StandardClasses THEN cache0[cache_key(Str(k))]
    ELSE Details(cache0[cache_key(Str(k))])

\* No key is given twice.
DistinctInput == Cardinality(InputKeys) = Len(InputList)

\* C11: in the synchronous getBatchDetails with raise_on_fail=False a chunk
\* failure (transport exception, 429, other bad status, total timeout)
\* raises nothing: the call returns the result assembled so far, the bogon
\* and cache-hit entries plus the records of the chunks that completed
\* before the failing one; the keys of the failing and of all later chunks
\* are absent and no later chunk is dispatched; with an empty cache and a
\* first chunk answered 429 it returns {}.
C11_SyncFailureReturnsPartial ==
    (BatchDone /\ cls \notin AsyncClasses /\ ~call.raise_on_fail /\ DistinctInput) =>
        /\ ret.kind = "return"
        /\ Len(sent) = Len(recv)
        /\ \A i \in 1..(Len(recv) - 1) : Good(recv[i])
        /\ DOMAIN ret.val =
              {k \in InputKeys : is_bogon(k) \/ WasCached(k)} \cup CompletedKeys
        /\ \A k \in UndoneKeys : k \notin DOMAIN ret.val
        /\ \A k \in DOMAIN ret.val :
              ret.val[k] = IF k \in CompletedKeys THEN FetchedEntry(cls, k)
                           ELSE IF is_bogon(k) THEN Details([ip |-> k, bogon |-> TRUE])
                           ELSE CachedEntry(cls, k)
        /\ (cache0 = EmptyDict /\ (\A k \in InputKeys : ~is_bogon(k))
               /\ recv # <<>> /\ ~Good(recv[1])) => ret.val = EmptyDict

\* The failures of the chunks answered so far.
ChunkFailures ==
    {ChunkFailure(cls, recv[i]) : i \in {h \in 1..Len(recv) : ~Good(recv[h])}}

\* C12: in the concurrent getBatchDetails (AsyncHandler, AsyncHandlerPlus,
\* AsyncHandlerResProxy) with raise_on_fail=True, when a chunk has failed the
\* call raises that chunk's failure (RequestQuotaExceededError for a 429),
\* for every number of chunks and every completion order, and never returns
\* a result.
C12_AsyncFailureRaised ==
    (BatchDone /\ cls \in AsyncClasses /\ call.raise_on_fail
        /\ ChunkFailures # {}) =>
        /\ ret.kind = "raise"
        /\ ret.exc \in ChunkFailures

\* C13: TimeoutExceededError comes from the tracking of the total time only:
\* when timeout_total is None no synchronous or concurrent getBatchDetails
\* raises TimeoutExceededError, whatever chunks fail; the timeout of one
\* chunk's request surfaces as that request's transport failure.
C13_TimeoutOnlyWithTotal ==
    (BatchDone /\ ~call.timeout_total) =>
        ~(ret.kind = "raise" /\ ret.exc = "TimeoutExceededError")

\* C14: in the synchronous getBatchDetails with raise_on_fail=True
\* timeout_total is a hard timeout: whenever the time spent passes
\* timeout_total before the call returns, also when it does so during the
\* only or the last chunk, the operation raises TimeoutExceededError.
C14_SyncHardTimeout ==
    (BatchDone /\ cls \notin AsyncClasses /\ call.raise_on_fail
        /\ call.timeout_total /\ overtime
        /\ \A i \in 1..Len(recv) : Good(recv[i])) =>
        ret = Raise("TimeoutExceededError")

\* The keys of the chunk posted as the i-th request.
KeysOfChunk(i) == {Unwind(x) : x \in Range(sent[i].json)}

C16_AsyncTimeoutCancels ==
    [][/\ (overtime /\ pc = "cancel") => (cache' = cache /\ result' = result)
       /\ (overtime' /\ pc # "done" /\ pc' = "done") =>
             /\ \A j \in 1..Len(tasks') : ~LiveTask(tasks'[j])
             /\ ret' = IF call.raise_on_fail THEN Raise("TimeoutExceededError")
                       ELSE Return(result)]_vars

\* C17: when a concurrent getBatchDetails returns or raises, no chunk task
\* is still running: under every interleaving each task has completed or has
\* been cancelled and awaited, so nothing writes to the cache or to the
\* result after the call is over.
C17_AsyncNoTaskOutlivesCall ==
    (BatchDone /\ cls \in AsyncClasses) =>
        \A j \in 1..Len(tasks) : ~LiveTask(tasks[j])

-----------------------------------------------------------------------------
(* Properties of the cache across calls.                                    *)

\* A getBatchDetails of a Plus or ResProxy handler has returned, every chunk
\* answered with a success.
BatchSucceeded ==
    /\ BatchDone
    /\ cls \in PlusClasses \cup ResProxyClasses
    /\ ret.kind = "return"
    /\ AllChunksSucceeded

\* C18: for HandlerPlus, HandlerResProxy and their asyncio variants, after a
\* fully successful getBatchDetails over the keys K every record of K is in
\* the cache under cache_key of the original key, so that getBatchDetails(K)
\* again, or getDetails(k) for a k of K, issues no network request and
\* returns the same record for each key.
C18_BatchThenHit ==
    [][BatchSucceeded =>
          /\ \A k \in InputKeys : ~is_bogon(k) =>
                /\ cache_key(Str(k)) \in DOMAIN cache
                /\ ret.val[k] = Details(cache[cache_key(Str(k))])
          /\ (call'.op = "getBatchDetails" /\ pc' # "idle") =>
                /\ call' = call
                /\ sent' = <<>>
                /\ pc' = "done"
                /\ ret' = ret
          /\ call'.op = "getDetails" =>
                /\ Normalize(call'.ip_address).text \in InputKeys
                /\ sent' = <<>>
                /\ ret' = Return(ret.val[Normalize(call'.ip_address).text])]_vars

\* A getBatchDetails over two keys that the service had resolved before was
\* answered from the cache alone.
C18_Witness ==
    /\ BatchSucceeded
    /\ sent = <<>>
    /\ Cardinality(InputKeys) = 2
    /\ \A k \in InputKeys : ~is_bogon(k) /\ WasCached(k)
    /\ \A k \in InputKeys : ret.val[k] = Details(cache0[cache_key(Str(k))])

-----------------------------------------------------------------------------
(* Properties of getDetails: error bodies.                                  *)

\* C19: AsyncHandler.getDetails, on a response with a status >= 400 other
\* than 429, raises APIError with the status as error_code and, as
\* error_json, the parsed body when the body is JSON and the mapping
\* {error: <raw body text>} when it is not; a non-JSON error body raises no
\* other kind of error.
C19_AsyncHandlerErrorBody ==
    (DetailsDone /\ cls = "AsyncHandler" /\ recv # <<>> /\ ~IsError(recv[1])
        /\ recv[1].status >= 400 /\ recv[1].status # 429) =>
        ret = RaiseAPIError(recv[1].status,
                            IF recv[1].content_type = "application/json"
                            THEN ErrorJson
                            ELSE [error |-> ErrorText])

-----------------------------------------------------------------------------
(* Properties of getBatchDetailsIter.                                       *)

\* The step is a whole run of the generator with every chunk answered 200.
IterStep ==
    /\ pc = "idle" /\ pc' = "done"
    /\ call'.op = "getBatchDetailsIter"
    /\ Len(recv') = NumChunks(lookup_addresses', EffectiveBatchSize(call'.batch_size))
    /\ \A i \in 1..Len(recv') : Good(recv'[i])

\* C20: Handler.getBatchDetailsIter is equivalent to Handler.getBatchDetails:
\* for the same input keys, initial cache and service responses it yields
\* exactly the values of the result getBatchDetails returns, one enriched
\* record for each resolved key (bogon, cache hit or fetched in a chunk), and
\* it leaves the cache in the same state.
C20_IterEquivalent ==
    [][(IterStep /\ cls = "Handler") =>
          LET b == GetBatchDetailsAllGood(cls, call'.ip_addresses, call'.batch_size)
          IN /\ ret'.exc = ""
             /\ Len(ret'.val) = Cardinality(DOMAIN b.result)
             /\ Range(ret'.val) = {b.result[k] : k \in DOMAIN b.result}
             /\ cache' = b.cache]_vars

\* A run of getBatchDetailsIter is over.
IterDone == pc = "done" /\ call.op = "getBatchDetailsIter"

\* C21: getBatchDetailsIter (Handler and AsyncHandler) with
\* raise_on_fail=False never raises on the failure of a chunk, transport
\* exception or bad status such as 429: it stops producing output and ends
\* normally, and the records already yielded stay yielded.
C21_IterFailureEndsNormally ==
    (IterDone /\ ~call.raise_on_fail
        /\ \E i \in 1..Len(recv) : ~Good(recv[i])) =>
        ret.exc = ""

\* The input key an item yielded by AsyncHandler.getBatchDetailsIter is
\* about: the address of a tuple or of a Details object; none when the item
\* is no record of a key.
ItemKeys(item) ==
    IF item.class = "tuple" THEN {item.key}
    ELSE IF item.class = "Details" THEN {item.details.ip}
    ELSE {}

\* C22: when every chunk succeeds, AsyncHandler.getBatchDetailsIter yields
\* the record of each resolved input key exactly once, as one item per key,
\* for every number of chunks and also when some or all keys are cache hits.
C22_AsyncIterOncePerKey ==
    (IterDone /\ cls = "AsyncHandler" /\ ret.exc = ""
        /\ \A i \in 1..Len(recv) : Good(recv[i])) =>
        /\ Len(ret.val) = Cardinality(InputKeys)
        /\ \A k \in InputKeys :
              Cardinality({j \in 1..Len(ret.val) : k \in ItemKeys(ret.val[j])}) = 1

-----------------------------------------------------------------------------
(* Properties of the aiohttp session.                                       *)

\* The sessions created and not closed.
LiveSessions == {i \in 1..Len(sessions) : sessions[i] = "open"}

\* C23: on each asyncio handler the session is created lazily and init() is
\* idempotent: the init(), getDetails and getBatchDetails calls between two
\* deinit() calls create exactly one session, init() never fails, and at no
\* time does the handler hold more than one live session.
C23_OneSessionInitSucceeds ==
    cls \in AsyncClasses =>
        /\ LiveSessions = IF httpsess = 0 THEN {} ELSE {httpsess}
        /\ (pc # "idle" /\ call.op \in {"init", "getDetails", "getBatchDetails"}) =>
              httpsess # 0
        /\ (pc = "done" /\ call.op = "init") => ret.kind = "return"

\* The step is a lookup of a handler that holds no session.
LazyStep ==
    /\ cls \in AsyncClasses
    /\ httpsess = 0
    /\ call'.op \in {"getDetails", "getBatchDetails"}
    /\ pc = "idle" /\ pc' # "idle"

\* C24: on each asyncio handler deinit() is idempotent: after one or more
\* deinit() calls, with or without a session having been created, the handler
\* holds no session (httpsess is None) and every session it created has been
\* closed; a later lookup lazily creates a fresh session.
C24_DeinitIdempotent ==
    [][/\ (pc' = "done" /\ call'.op = "deinit") =>
             /\ ret' = Return(NoneRec)
             /\ httpsess' = 0
             /\ \A i \in 1..Len(sessions') : sessions'[i] = "closed"
       /\ LazyStep =>
             /\ httpsess' \notin 1..Len(sessions)
             /\ httpsess' \in 1..Len(sessions')
             /\ sessions'[httpsess'] = "open"
             /\ \A i \in 1..Len(sessions) : sessions'[i] = sessions[i]]_vars

\* A lookup made after a deinit has given the handler a second session, the
\* first one closed.
C24_Witness ==
    /\ cls \in AsyncClasses
    /\ pc = "done" /\ call.op = "getDetails"
    /\ sessions = <<"closed", "open">>
    /\ httpsess = 2

-----------------------------------------------------------------------------
(* Properties of the bundled caches.                                        *)

\* C25: every bundled cache, DefaultCache and Memcached, keeps the contract
\* of the three operations: the get of an absent key fails with KeyError and
\* returns no value, so that a handler with either cache takes an absent key
\* for a miss and sends a request.
C25_AbsentKeyRaises ==
    (ccls \in CacheClasses /\ out.key \notin Held(ccls, store, now)) =>
        /\ out.op = "__getitem__" => out.kind = "KeyError"
        /\ out.op = "getDetails" => out.kind = "request"

\* C26: for DefaultCache, after set(k, v) and until the entry expires or is
\* evicted, contains(k) is true and get(k) returns v, the last value set for
\* k; the get of a key that was never set raises KeyError.
C26_DefaultCacheSetGet ==
    ccls = "DefaultCache" =>
        /\ out.op = "__setitem__" =>
              /\ out.key \in Live(store, now)
              /\ store[out.key].value = out.val
        /\ (out.op = "__contains__" /\ out.key \in Live(store, now)) =>
              out.val = "True"
        /\ (out.op = "__getitem__" /\ out.key \in Live(store, now)) =>
              out.kind = "value" /\ out.val = store[out.key].value
        /\ (out.op = "__getitem__" /\ out.key \notin DOMAIN store) =>
              out.kind = "KeyError"

\* The second value set for a key is read back while the entry is live, the
\* timer having moved on since.
C26_Witness ==
    /\ ccls = "DefaultCache"
    /\ out = Outcome("__getitem__", "foo", "value", "v2")
    /\ now > 0
    /\ "foo" \in Live(store, now)

\* C27: after any sequence of set and get operations the DefaultCache never
\* holds more than maxsize live entries.
C27_DefaultCacheBounded ==
    ccls = "DefaultCache" =>
        /\ Cardinality(Live(store, now)) <= MaxSize
        /\ Cardinality(DOMAIN store) <= MaxSize

\* A set of a new key into a full cache has made room with popitem: the cache
\* is full, and the key just set is in it.
C27_Witness ==
    /\ ccls = "DefaultCache"
    /\ out.op = "__setitem__"
    /\ out.kind = "popitem"
    /\ out.key \in Live(store, now)
    /\ Cardinality(Live(store, now)) = MaxSize

\* The last operation was made on a DefaultCache for a key whose entry was
\* older than ttl when the operation began.
OnExpired ==
    /\ ccls = "DefaultCache"
    /\ out.key \in (DOMAIN store0) \ Live(store0, now)

\* C28: a DefaultCache entry older than the configured ttl is
\* indistinguishable from an absent one: contains is false, get raises
\* KeyError (both exactly as on the cache without the entry), and a
\* getDetails for the key dispatches a new network request and, with the
\* details that request brings, refills the cache.
C28_ExpiredIsAbsent ==
    OnExpired =>
        /\ out.op = "__contains__" =>
              /\ out.val = "False"
              /\ out = __contains__(ccls, Without(store0, {out.key}), now, out.key)
        /\ out.op = "__getitem__" =>
              /\ out.kind = "KeyError"
              /\ out = __getitem__(ccls, Without(store0, {out.key}), now, out.key)
        /\ out.op = "getDetails" =>
              /\ out.kind = "request"
              /\ out.val # "" =>
                    /\ out.key \in Live(store, now)
                    /\ store[out.key] = [value |-> out.val, expires |-> now + Ttl]

\* getDetails found an expired entry, sent the request and refilled the cache
\* with other details than the expired ones.
C28_Witness ==
    /\ OnExpired
    /\ out.op = "getDetails"
    /\ out.kind = "request"
    /\ out.val # ""
    /\ store0[out.key].value # out.val
    /\ store[out.key].value = out.val

\* C29: cache_key is deterministic and version-separating: the cache key is
\* a function of the raw key and the version tag alone, for every raw key the
\* cache keys built with two different version tags are different, and an
\* entry written under one tag is never returned to a read under another.
C29_CacheKeyVersionSeparates ==
    /\ \A k \in RawKeys : \A v1, v2 \in Tags :
          v1 # v2 => VersionedKey(k, v1) # VersionedKey(k, v2)
    /\ \A k \in RawKeys : cache_key(k) = VersionedKey(k, CACHE_KEY_VSN)
    /\ (out.op = "cache_key" /\ out.val # "") => out.val = out.kind
    /\ \A ck \in DOMAIN store : \A k \in RawKeys : \A vsn \in Tags :
          ck = VersionedKey(k, vsn) => store[ck].value = vsn

\* A read under one tag misses although the server holds an entry written for
\* the same raw key under the other tag.
C29_Witness ==
    /\ out = Outcome("cache_key", VersionedKey(Str("2001:db8::1"), "2"), "2", "")
    /\ VersionedKey(Str("2001:db8::1"), CACHE_KEY_VSN) \in DOMAIN store
    /\ VersionedKey(Str("2001:db8::1:2"), CACHE_KEY_VSN) \in DOMAIN store

\* C30: format_details is idempotent: for every record, applying it twice
\* with the same reference tables gives the same record as applying it once.
C30_FormatDetailsIdempotent ==
    (call.op = "format_details" /\ call.applied = 2) =>
        /\ ret = Return(format_details(call.details))
        /\ DOMAIN ret.val = DOMAIN format_details(call.details)

\* format_details has been applied twice to a record it enriches with a
\* country name, a flag and coordinates.
C30_Witness ==
    /\ call.op = "format_details"
    /\ call.applied = 2
    /\ ret.kind = "return"
    /\ ret.val # call.details
    /\ "country_name" \notin DOMAIN call.details
    /\ {"country_name", "country_flag", "latitude", "longitude"} \subseteq DOMAIN ret.val
    /\ ret.val["latitude"] # NoneStr

\* The record format_details was last given, and the record it made of it.
FormatDone == call.op = "format_details" /\ ret.kind = "return"
Given == call.details
Made == ret.val

\* The places of the "," in a loc, and a loc of the form <lat>,<lon> with both
\* parts non-empty.
Commas(l) == {i \in 1..Len(l) : l[i] = ","}
LatLon(l) ==
    /\ Cardinality(Commas(l)) = 1
    /\ \A i \in Commas(l) : 1 < i /\ i < Len(l)
LatOf(l) == Join(SubSeq(l, 1, (CHOOSE i \in Commas(l) : TRUE) - 1))
LonOf(l) == Join(SubSeq(l, (CHOOSE i \in Commas(l) : TRUE) + 1, Len(l)))

\* C31: a loc of the form <lat>,<lon> with both parts non-empty sets latitude
\* to <lat> and longitude to <lon>; when loc is absent, empty or does not
\* split into exactly two non-empty parts, the record is left with neither a
\* latitude nor a longitude field.
C31_LocParsed ==
    FormatDone =>
        IF "loc" \in DOMAIN Given /\ LatLon(Given["loc"])
        THEN /\ {"latitude", "longitude"} \subseteq DOMAIN Made
             /\ Made["latitude"] = LatOf(Given["loc"])
             /\ Made["longitude"] = LonOf(Given["loc"])
        ELSE /\ "latitude" \notin DOMAIN Made
             /\ "longitude" \notin DOMAIN Made

\* The country code of the record given, and a record as the service sends
\* it: one that format_details has not been applied to.
CodeGiven ==
    IF "country_code" \in DOMAIN Given THEN Given["country_code"]
    ELSE IF "country" \in DOMAIN Given THEN Given["country"]
    ELSE ""
Fetched == FormatDone /\ call.applied = 1 /\ "country_name" \notin DOMAIN Given
SetWhenKnown(field, table) ==
    IF CodeGiven \in DOMAIN table
    THEN field \in DOMAIN Made /\ Made[field] = table[CodeGiven]
    ELSE field \notin DOMAIN Made
ExampleRecord == [ip |-> "8.8.8.8", country |-> "US", loc |-> LocOf("8.8.8.8")]

DerivedFrom(c) ==
    /\ Made["isEU"] = (c \in eu_countries)
    /\ Made["country_flag_url"] = COUNTRY_FLAGS_URL \o c \o ".svg"
    /\ c \in DOMAIN countries =>
          /\ Made["country_name"] = countries[c]
          /\ Made["country_flag"] = countries_flags[c]
          /\ Made["country_currency"] = countries_currencies[c]
          /\ Made["continent"] = continents[c]
    /\ (c \notin DOMAIN countries /\ "country_name" \notin DOMAIN Given) =>
          {"country_name", "country_flag", "country_currency", "continent"}
              \cap DOMAIN Made = {}

C33_GetMapOneRequest ==
    call.op = "getMap" =>
        /\ Len(sent) = 1
        /\ Len(recv) = 1
        /\ Len(sent[1].json) = Len(call.ips)
        /\ \A i \in 1..Len(call.ips) : sent[1].json[i] = call.ips[i].text
        /\ cache = cache0
        /\ IsError(recv[1]) => ret = Raise(recv[1].error)
        /\ (~IsError(recv[1]) /\ recv[1].status >= 400) => ret.kind = "raise"
        /\ (~IsError(recv[1]) /\ recv[1].status < 400) => ret = Return(ReportUrl)

\* getMap has failed on a handler whose cache holds the record of an address
\* of the call.
C33_Witness ==
    /\ call.op = "getMap"
    /\ cache_key(Str("8.8.8.8")) \in DOMAIN cache
    /\ \E i \in 1..Len(call.ips) : call.ips[i].text = "8.8.8.8"
    /\ ret = Raise("ConnectionError")

\* A record as the enricher of the handler's class leaves it.
Enriched(rec) == \E a \in PublicAddrs : rec = ChunkRecord(cls, ServiceRecord(cls, a))
Unwrapped(v) == IF IsDict(v) THEN v ELSE v.details

\* C34: in every batch path each fetched record is enriched before it is
\* written into the cache and written into the cache before it is merged
\* into the result, and no record is modified after it has been placed in
\* the cache: at every statement the cache holds enriched records only, and
\* the result no record that the cache does not hold.
C34_EnrichThenCacheThenMerge ==
    call.op = "chunk" =>
        /\ \A ck \in DOMAIN cache : Enriched(cache[ck])
        /\ \A k \in DOMAIN result :
              /\ cache_key(Str(k)) \in DOMAIN cache
              /\ Unwrapped(result[k]) = cache[cache_key(Str(k))]

\* C35: after any sequence of getDetails, getBatchDetails and
\* getBatchDetailsIter calls on a Handler, every live cache entry holds a
\* record that went through the enricher: it carries isEU and
\* country_flag_url.
C35_CacheHoldsEnriched ==
    cls = "Handler" =>
        \A ck \in DOMAIN cache :
            {"isEU", "country_flag_url"} \subseteq DOMAIN cache[ck]

\* The keys that only the chunk of task j asks for.
OwnKeys(j) ==
    {Unwind(x) : x \in Range(tasks[j].chunk)}
        \ UNION {{Unwind(x) : x \in Range(tasks[h].chunk)} :
                    h \in (1..Len(tasks)) \ {j}}
Landed(k) == cache_key(Str(k)) \in DOMAIN cache /\ k \in DOMAIN result
Untouched(k) == cache_key(Str(k)) \notin DOMAIN cache /\ k \notin DOMAIN result

\* C36: the effect of one chunk in the concurrent getBatchDetails is
\* all-or-nothing: wherever another coroutine can run or the task can be
\* cancelled, either all records of the chunk's response are in the cache
\* and in the result, or none is; a cancelled or failed chunk leaves none.
C36_ChunkAllOrNothing ==
    (InBatch /\ cls \in AsyncClasses) =>
        \A j \in 1..Len(tasks) :
            /\ \/ \A k \in OwnKeys(j) : Landed(k)
               \/ \A k \in OwnKeys(j) : Untouched(k)
            /\ tasks[j].state \in {"new", "posted", "cancelled", "failed"} =>
                  \A k \in OwnKeys(j) : Untouched(k)

\* With the caller still waiting, a chunk of two keys has landed whole while
\* another chunk of the call has failed and left nothing.
C36_Witness ==
    /\ InBatch
    /\ cls \in {"AsyncHandler", "AsyncHandlerPlus"}
    /\ pc = "wait"
    /\ \E j, h \in 1..Len(tasks) :
          /\ Cardinality(OwnKeys(j)) = 2
          /\ tasks[j].state = "done"
          /\ \A k \in OwnKeys(j) : Landed(k)
          /\ tasks[h].state = "failed"
          /\ OwnKeys(h) # {}
          /\ \A k \in OwnKeys(h) : Untouched(k)

\* The keys of the chunks whose responses were read and handled.
FetchedKeys ==
    UNION {{Unwind(x) : x \in Range(tasks[j].chunk)} :
              j \in {h \in 1..Len(tasks) : tasks[h].fetched}}

\* The keys of the input the scan of the list answers by itself.
ScanKeys ==
    {k \in InputKeys :
        WasCached(k) \/ (cls \notin StandardClasses /\ k # "" /\ is_bogon(k))}

\* The entry the scan writes for such a key.
ScanEntry(k) ==
    IF cls \notin StandardClasses /\ k # "" /\ is_bogon(k) THEN BogonDetails(k)
    ELSE CachedEntry(cls, k)

\* C37: in the concurrent getBatchDetails with no timeout_total, the service
\* answering each key with a fixed record, the returned result and the final
\* cache are the same under every completion order of the chunk tasks: a
\* function of the input, of the cache at the start and of the set of chunks
\* that succeeded.  When every chunk succeeds, and with raise_on_fail=False
\* wherever the failing chunks fall, they hold the records of every chunk
\* that succeeded.
C37_CompletionOrderIrrelevant ==
    (BatchDone /\ cls \in AsyncClasses /\ ~call.timeout_total
        /\ (AllChunksSucceeded \/ ~call.raise_on_fail)) =>
        /\ ret = Return(result)
        /\ DOMAIN result = FetchedKeys \cup ScanKeys
        /\ \A k \in FetchedKeys : result[k] = FetchedEntry(cls, k)
        /\ \A k \in ScanKeys \ FetchedKeys : result[k] = ScanEntry(k)
        /\ DOMAIN cache = DOMAIN cache0 \cup {cache_key(Str(k)) : k \in FetchedKeys}
        /\ \A k \in FetchedKeys :
              cache[cache_key(Str(k))] = FormatSingle(cls, ServiceRecord(cls, k))
        /\ \A ck \in DOMAIN cache0 :
              (\A k \in FetchedKeys : cache_key(Str(k)) # ck) => cache[ck] = cache0[ck]

\* With raise_on_fail=False the chunk that finished first has failed and the
\* one that finished last has not; the call has returned the records of the
\* chunks that succeeded, the first of the plan among them.
C37_Witness ==
    /\ BatchDone
    /\ cls \in AsyncClasses
    /\ ~call.timeout_total
    /\ ~call.raise_on_fail
    /\ Len(tasks) >= 2
    /\ Len(recv) = Len(tasks)
    /\ ~Good(recv[1])
    /\ Good(recv[Len(recv)])
    /\ tasks[1].fetched
    /\ \E j \in 1..Len(tasks) : ~tasks[j].fetched
    /\ ret = Return(result)
    /\ FetchedKeys # {}

-----------------------------------------------------------------------------
(* deinit beside the lookups of another coroutine.                          *)

\* The step sends a request on the session s: the GET of getDetails on the
\* session _ensure_aiohttp_ready has left in self.httpsess, or the POST of a
\* chunk task on self.httpsess.
UsesSession(s) ==
    \/ /\ \E a \in DetailArgs : GetDetails(a)
       /\ sent' # <<>>
       /\ s = httpsess'
    \/ /\ \E j \in 1..Len(tasks) : TaskPost(j)
       /\ s = httpsess

\* C38: on an asyncio handler no request is issued on a closed session:
\* however deinit() is interleaved with getDetails and getBatchDetails calls
\* on the handler, a lookup that starts after deinit() has begun to close the
\* session does not use that session.
C38_NoRequestOnClosingSession ==
    [][\A s \in 1..Len(sessions') : UsesSession(s) => sessions'[s] = "open"]_vars

-----------------------------------------------------------------------------
(* HandlerPlus.getBatchDetails stopped at a chunk, and the call repeated.   *)

\* The keys of the chunks that were answered before the call stopped, and the
\* keys of the chunk it stopped at and of the later ones, in the order of
\* lookup_addresses.
KeysBefore(la, i) == {la[h] : h \in 1..i}
KeysFrom(la, i) == SubSeq(la, i + 1, Len(la))

\* The keys of the list l that are not in the set done, in the order of l.
NotYet(l, done) == SelectSeq(l, LAMBDA k : k \notin done)

\* The step ends a getBatchDetails of HandlerPlus before its last chunk has
\* been answered: by an exception or with the partial result.
StopStep ==
    /\ cls = "HandlerPlus"
    /\ pc = "chunks" /\ pc' = "done"
    /\ idx' < Len(lookup_addresses)

\* The step repeats the getBatchDetails call of HandlerPlus that has just
\* stopped before its last chunk.
AgainStep ==
    /\ cls = "HandlerPlus"
    /\ pc = "done"
    /\ call.op = "getBatchDetails"
    /\ idx < Len(lookup_addresses)
    /\ BatchStart(call)

\* C39: in the synchronous HandlerPlus.getBatchDetails, when a call stops at
\* chunk j, raising or returning the partial result, the records of the
\* chunks 1..j-1 are in the cache, with what the cache held before, and no key
\* that only chunk j or a later chunk holds is cached; the same call made
\* again dispatches the keys of chunk j and of the later chunks only, those
\* of them that no earlier chunk had fetched.
C39_StopKeepsEarlierChunks ==
    [][/\ StopStep =>
             /\ \A k \in KeysBefore(lookup_addresses, idx') :
                   /\ cache_key(Str(k)) \in DOMAIN cache'
                   /\ cache'[cache_key(Str(k))] = FormatSingle(cls, ServiceRecord(cls, k))
             /\ \A ck \in DOMAIN cache0 :
                   ck \in DOMAIN cache' /\ cache'[ck] = cache0[ck]
             /\ \A k \in Range(KeysFrom(lookup_addresses, idx')) :
                   k \notin KeysBefore(lookup_addresses, idx') =>
                       cache_key(Str(k)) \notin DOMAIN cache'
       /\ AgainStep =>
             lookup_addresses' =
                 NotYet(KeysFrom(lookup_addresses, idx), KeysBefore(lookup_addresses, idx))]_vars

\* With batch_size=1 the first chunk was answered and the second was not:
\* the call has raised with one of its keys fetched and one left.
C39_Witness ==
    /\ cls = "HandlerPlus"
    /\ BatchDone
    /\ ret.kind = "raise"
    /\ Len(sent) = 2
    /\ idx = 1
    /\ Len(lookup_addresses) >= 2
    /\ lookup_addresses[2] # lookup_addresses[1]
    /\ cache_key(Str(lookup_addresses[1])) \in DOMAIN cache
    /\ cache_key(Str(lookup_addresses[2])) \notin DOMAIN cache

====
